---------------------------- MODULE Spec2Model ----------------------------
(***************************************************************************)
(* Model of the highlight analyzer of the clip backend                     *)
(* (app/services/ai/analysis.py, class AnalysisService) and of the call    *)
(* the video-processing worker makes to it (app/workers/tasks.py).         *)
(*                                                                         *)
(* Representation.  Texts are strings.  Every float the analyzer handles   *)
(* is carried exactly:                                                     *)
(*   - times (segment start/end, duration) in tenths of a second;          *)
(*   - scores in tenths of a point (a hook score of 80.0 is 800);          *)
(*   - emotion weights as reduced fractions <<num, den>>.                  *)
(* Highlight start/end are the integers (seconds) that range() yields.     *)
(***************************************************************************)
EXTENDS Integers, Sequences, FiniteSets, TLC

(***************************************************************************)
(* Bounds of the model.                                                    *)
(***************************************************************************)
\* Largest number of segments in a transcription.
MaxSegs == 3

\* Largest number of segments in a transcription drawn from the wider texts.
MaxTextSegs == 2

\* Largest number of analyze_video calls under way at once.
MaxCalls == 2

\* Largest number of video rows ever created.
MaxVideos == 1

\* Largest number of clip rows ever created.
MaxClips == 2

\* Largest number of Celery tasks queued or running at once.
MaxTasks == 2

\* A user's renders are followed until this many of them have completed.
MaxRenders == 2

(***************************************************************************)
(* Arithmetic helpers.                                                     *)
(***************************************************************************)
Min(a, b) == IF a <= b THEN a ELSE b

Max(a, b) == IF a >= b THEN a ELSE b

Abs(a) == IF a >= 0 THEN a ELSE -a

\* The list f[1], ..., f[n] with its elements computed (a list comprehension
\* builds its list once).
List(f) == f \o <<>>

RECURSIVE Gcd(_, _)
Gcd(a, b) == IF b = 0 THEN a ELSE Gcd(b, a % b)

RECURSIVE SumSeq(_)
SumSeq(s) == IF s = <<>> THEN 0 ELSE Head(s) + SumSeq(Tail(s))

\* Python int(x) of a float given in tenths: truncation towards zero.
IntTrunc(tenths) == IF tenths >= 0 THEN tenths \div 10 ELSE -((-tenths) \div 10)

\* n/d (d > 0) rounded to the nearest integer, ties to the even one: what
\* round(x, k) does on a value that is exact in binary at the tie.
RoundHalfEven(n, d) ==
    LET q == n \div d
        r == n % d
    IN  IF 2 * r < d THEN q
        ELSE IF 2 * r > d THEN q + 1
        ELSE IF q % 2 = 0 THEN q ELSE q + 1

(***************************************************************************)
(* Fractions <<num, den>>, den > 0, in lowest terms.                       *)
(***************************************************************************)
Frac(n, d) ==
    LET g == Gcd(Abs(n), Abs(d))
        s == IF d < 0 THEN -1 ELSE 1
    IN  IF n = 0 THEN <<0, 1>> ELSE <<(s * n) \div g, (s * d) \div g>>

FAdd(a, b) == Frac(a[1] * b[2] + b[1] * a[2], a[2] * b[2])

FMul(a, b) == Frac(a[1] * b[1], a[2] * b[2])

\* a / b for b > 0.
FDiv(a, b) == Frac(a[1] * b[2], a[2] * b[1])

FPos(a) == a[1] > 0

FLess(a, b) == a[1] * b[2] < b[1] * a[2]

\* round(a, 3) as a fraction over 1000.
FRound3(a) == Frac(RoundHalfEven(a[1] * 1000, a[2]), 1000)

(***************************************************************************)
(* The texts of the bounded inputs: what a segment may say, and every      *)
(* space-joined sequence of at most MaxSegs of them (a full text, a window *)
(* transcript).                                                            *)
(***************************************************************************)
TextSecret == "What if I told you a secret?"

TextLove == "I love this amazing incredible moment"

TextStory == "Recently everyone always made 100 dollars. Why?"

TextPitch ==
    "SUBSCRIBE follow like comment share check out debate argue wrong right truth"

Texts == {TextSecret, TextLove, TextStory, TextPitch}

\* Further segment texts: one loaded with emotion and trending words, one
\* with one joy and one anger word, one of short words only, one with many
\* capitalised words, and the empty text.
TextHype ==
    "happy joy excited amazing great awesome angry hate terrible awful worst annoying ai crypto bitcoin money success"

TextMixed == "I love and hate it"

TextShort == "Oh no, it is 5 PM. OK?"

TextCaps == "WOW this is HUGE and REAL, not FAKE. BUY NOW, ACT FAST"

TextEmpty == ""

WideTexts == Texts \cup {TextHype, TextMixed, TextShort, TextCaps, TextEmpty}

\* " ".join(parts)
RECURSIVE Join(_)
Join(parts) ==
    IF parts = <<>> THEN ""
    ELSE IF Len(parts) = 1 THEN Head(parts)
    ELSE Head(parts) \o " " \o Join(Tail(parts))

KnownTexts == {Join(ts) : ts \in UNION {[1..n -> Texts] : n \in 0..MaxSegs}}

(***************************************************************************)
(* Strings: character classes, str.lower, `in`, startswith, split, strip   *)
(* and the two regular expressions.  Each primitive is defined on every    *)
(* string; its values on the texts above are computed once and looked up.  *)
(***************************************************************************)
UpperLetters == "ABCDEFGHIJKLMNOPQRSTUVWXYZ"

LowerLetters == "abcdefghijklmnopqrstuvwxyz"

Digits == "0123456789"

CharAt(s, i) == SubSeq(s, i, i)

CharsOf(s) == {CharAt(s, i) : i \in 1..Len(s)}

UpperSet == CharsOf(UpperLetters)

LetterSet == CharsOf(UpperLetters) \cup CharsOf(LowerLetters)

DigitSet == CharsOf(Digits)

\* \w of the re module, on the ASCII characters the model's texts use.
WordCharSet == LetterSet \cup DigitSet \cup {"_"}

\* The characters str.strip() removes, among those the model's texts use.
SpaceSet == {" "}

LowerMap ==
    [c \in UpperSet |->
        CharAt(LowerLetters, CHOOSE i \in 1..Len(UpperLetters) : CharAt(UpperLetters, i) = c)]

LowerChar(c) == IF c \in UpperSet THEN LowerMap[c] ELSE c

\* str.lower, character by character (the halves are joined).
RECURSIVE Lowercase(_)
Lowercase(text) ==
    IF Len(text) = 0 THEN ""
    ELSE IF Len(text) = 1 THEN LowerChar(text)
    ELSE LET h == Len(text) \div 2
         IN  Lowercase(SubSeq(text, 1, h)) \o Lowercase(SubSeq(text, h + 1, Len(text)))

LowerTable == [t \in KnownTexts |-> Lowercase(t)]

\* text.lower()
lower(text) == IF text \in KnownTexts THEN LowerTable[text] ELSE Lowercase(text)

\* needle in text, by comparing at every position.
Occurs(text, needle) ==
    \E i \in 1..(Len(text) - Len(needle) + 1) :
        SubSeq(text, i, i + Len(needle) - 1) = needle


(***************************************************************************)
(* The vocabularies of the scoring functions.                              *)
(***************************************************************************)
bold_indicators ==
    <<"fact", "truth", "secret", "never", "always", "everyone", "nobody">>

story_starters ==
    <<"when i", "i remember", "one day", "last year", "recently">>

emotional_words ==
    <<"amazing", "incredible", "shocking", "surprising", "unbelievable",
      "love", "hate", "angry", "happy", "sad", "excited", "worried",
      "perfect", "terrible", "awesome", "awful", "fantastic">>

cta_words == <<"subscribe", "follow", "like", "comment", "share", "check out">>

controversial == <<"controversial", "debate", "argue", "wrong", "right", "truth">>

trending == <<"ai", "crypto", "bitcoin", "money", "success", "motivation">>

joy_words ==
    <<"happy", "joy", "excited", "amazing", "great", "awesome", "love", "perfect">>

anger_words == <<"angry", "hate", "terrible", "awful", "worst", "annoying">>

surprise_words == <<"wow", "unbelievable", "shocking", "surprising", "incredible">>

shift_indicators ==
    <<"but", "however", "on the other hand", "speaking of",
      "moving on", "let's talk about", "another thing">>

stop_words ==
    {"this", "that", "with", "from", "they", "have", "were",
     "been", "their", "would", "there", "could", "should"}

Range(f) == {f[i] : i \in DOMAIN f}

\* Every string the scoring functions look for with `in`.
Needles ==
    {"?"} \cup Range(bold_indicators) \cup Range(emotional_words) \cup Range(cta_words)
          \cup Range(controversial) \cup Range(trending) \cup Range(joy_words)
          \cup Range(anger_words) \cup Range(surprise_words) \cup Range(shift_indicators)

Haystacks == KnownTexts \cup Range(LowerTable)

OccursTable == [t \in Haystacks |-> {w \in Needles : Occurs(t, w)}]

\* needle in text
Contains(text, needle) ==
    IF text \in Haystacks /\ needle \in Needles
    THEN needle \in OccursTable[text]
    ELSE Occurs(text, needle)

\* text.startswith(prefix)
StartsWith(text, prefix) ==
    /\ Len(prefix) <= Len(text)
    /\ SubSeq(text, 1, Len(prefix)) = prefix

DigitTable == [t \in KnownTexts |-> \E i \in 1..Len(t) : CharAt(t, i) \in DigitSet]

\* re.search(r'\d+', text)
HasDigit(text) ==
    IF text \in KnownTexts THEN DigitTable[text]
    ELSE \E i \in 1..Len(text) : CharAt(text, i) \in DigitSet

\* for w in words: if w in text: ... break
AnyIn(words, text) == \E i \in 1..Len(words) : Contains(text, words[i])

\* for w in words: if text.startswith(w): ... break
AnyStarts(words, text) == \E i \in 1..Len(words) : StartsWith(text, words[i])

\* for w in words: if w in text: count one
CountIn(words, text) == Cardinality({i \in 1..Len(words) : Contains(text, words[i])})

(***************************************************************************)
(* Segment scoring.  Scores are in tenths of a point.                      *)
(***************************************************************************)
\* Variant: the score returned as accumulated.
ClampMissing(score) == score

\* min(100, max(0, score))
Clamp(score) == Min(1000, Max(0, score))

\* Variant: the bold-statement loop without its break.
calculate_hook_score_no_break(text, start_time) ==
    LET early    == IF start_time < 300 THEN 150
                    ELSE IF start_time < 600 THEN 100 ELSE 0
        question == IF Contains(text, "?") THEN 100 ELSE 0
        bold     == 50 * CountIn(bold_indicators, lower(text))
        number   == IF HasDigit(text) THEN 50 ELSE 0
        story    == IF AnyStarts(story_starters, lower(text)) THEN 100 ELSE 0
    IN  Min(1000, Max(0, 500 + early + question + bold + number + story))

\* _calculate_hook_score(text, start_time); start_time in tenths of a second.
calculate_hook_score(text, start_time) ==
    LET early    == IF start_time < 300 THEN 150
                    ELSE IF start_time < 600 THEN 100 ELSE 0
        question == IF Contains(text, "?") THEN 100 ELSE 0
        bold     == IF AnyIn(bold_indicators, lower(text)) THEN 50 ELSE 0
        number   == IF HasDigit(text) THEN 50 ELSE 0
        story    == IF AnyStarts(story_starters, lower(text)) THEN 100 ELSE 0
    IN  Clamp(500 + early + question + bold + number + story)

\* Variant: every vocabulary loop leaves at its first match.
calculate_engagement_score_with_break(text) ==
    LET low == lower(text)
    IN  Min(1000, Max(0, 500 + (IF AnyIn(emotional_words, low) THEN 30 ELSE 0)
                             + (IF AnyIn(cta_words, low) THEN 50 ELSE 0)
                             + (IF AnyIn(controversial, low) THEN 50 ELSE 0)))

\* _calculate_engagement_score(text)
calculate_engagement_score(text) ==
    LET low == lower(text)
    IN  Clamp(500 + 30 * CountIn(emotional_words, low)
                  + 50 * CountIn(cta_words, low)
                  + 50 * CountIn(controversial, low))

\* Variant: the weighted sum clamped before the trending bonus is added.
calculate_viral_score_clamp_first(text, hook_score, engagement_score) ==
    Min(1000, Max(0, (4 * hook_score) \div 10 + (4 * engagement_score) \div 10 + 200))
        + 50 * CountIn(trending, lower(text))

\* _calculate_viral_score(text, hook_score, engagement_score)
calculate_viral_score(text, hook_score, engagement_score) ==
    Clamp((4 * hook_score) \div 10 + (4 * engagement_score) \div 10 + 200
          + 50 * CountIn(trending, lower(text)))

EmotionLabels == <<"joy", "anger", "sadness", "fear", "surprise", "neutral">>

\* sum(d.values()) of a dict with the six emotion labels
SumValues(d) ==
    FAdd(FAdd(FAdd(d.joy, d.anger), FAdd(d.sadness, d.fear)),
         FAdd(d.surprise, d.neutral))

\* Variant: neutral gives up 0.2 per matched word, as much as the emotion gains.
emotion_scores_neutral_paired(text) ==
    LET text_lower == lower(text)
        j == CountIn(joy_words, text_lower)
        a == CountIn(anger_words, text_lower)
        s == CountIn(surprise_words, text_lower)
    IN  [joy      |-> Frac(2 * j, 10),
         anger    |-> Frac(2 * a, 10),
         sadness  |-> Frac(0, 1),
         fear     |-> Frac(0, 1),
         surprise |-> Frac(2 * s, 10),
         neutral  |-> Frac(10 - 2 * (j + a + s), 10)]

\* The emotions dict of _detect_emotions before "# Normalize": 0.2 to the
\* emotion and -0.1 to neutral per matched word.
emotion_scores(text) ==
    LET text_lower == lower(text)
        j == CountIn(joy_words, text_lower)
        a == CountIn(anger_words, text_lower)
        s == CountIn(surprise_words, text_lower)
    IN  [joy      |-> Frac(2 * j, 10),
         anger    |-> Frac(2 * a, 10),
         sadness  |-> Frac(0, 1),
         fear     |-> Frac(0, 1),
         surprise |-> Frac(2 * s, 10),
         neutral  |-> Frac(10 - (j + a + s), 10)]

\* total = sum(emotions.values()) of _detect_emotions
emotions_total(text) == SumValues(emotion_scores(text))

\* _detect_emotions(text): the scores, every value divided by the total when
\* the total is positive.
detect_emotions(text) ==
    LET emotions == emotion_scores(text)
        total == SumValues(emotions)
    IN  IF FPos(total)
        THEN [k \in DOMAIN emotions |-> FDiv(emotions[k], total)]
        ELSE emotions

\* _detect_topic_shift(text, context)
detect_topic_shift(text, context) == AnyIn(shift_indicators, lower(text))

\* _analyze_segment(segment, full_text)
analyze_segment(segment, full_text) ==
    LET text             == segment.text
        hook_score       == calculate_hook_score(text, segment.start)
        engagement_score == calculate_engagement_score(text)
        viral_score      == calculate_viral_score(text, hook_score, engagement_score)
    IN  [hook_score       |-> hook_score,
         engagement_score |-> engagement_score,
         viral_score      |-> viral_score,
         emotions         |-> detect_emotions(text),
         topic_shift      |-> detect_topic_shift(text, full_text)]

\* {**segment, **analysis}
Annotated(segment, analysis) ==
    [start            |-> segment.start,
     end              |-> segment.end,
     text             |-> segment.text,
     hook_score       |-> analysis.hook_score,
     engagement_score |-> analysis.engagement_score,
     viral_score      |-> analysis.viral_score,
     emotions         |-> analysis.emotions,
     topic_shift      |-> analysis.topic_shift]

(***************************************************************************)
(* Sequences: list slicing, stable sort, order-preserving deduplication.   *)
(***************************************************************************)
\* xs[:n]
Take(xs, n) == SubSeq(xs, 1, Min(n, Len(xs)))

\* sorted(xs, key=..., reverse=True) with keys[i] the key of xs[i]: Python's
\* sort is stable, also under reverse=True, so equal keys keep their order.
StableSortDesc(xs, keys) ==
    LET n == Len(xs)
        Before(i, k) == keys[i] > keys[k] \/ (keys[i] = keys[k] /\ i < k)
        rank == List([k \in 1..n |-> Cardinality({i \in 1..n : Before(i, k)}) + 1])
    IN  List([r \in 1..n |-> xs[CHOOSE k \in 1..n : rank[k] = r]])

\* The elements of a finite set of integers, ascending.
Ascending(S) ==
    List([r \in 1..Cardinality(S) |-> CHOOSE k \in S : Cardinality({j \in S : j < k}) = r - 1])

\* list(dict.fromkeys(xs)): first occurrences, in order
RECURSIVE DedupFrom(_, _)
DedupFrom(xs, seen) ==
    IF xs = <<>> THEN <<>>
    ELSE IF Head(xs) \in seen THEN DedupFrom(Tail(xs), seen)
    ELSE <<Head(xs)>> \o DedupFrom(Tail(xs), seen \cup {Head(xs)})

Dedup(xs) == DedupFrom(xs, {})

RECURSIVE Flatten(_)
Flatten(xss) == IF xss = <<>> THEN <<>> ELSE Head(xss) \o Flatten(Tail(xss))

(***************************************************************************)
(* The two regular expressions, \b[A-Za-z]{4,}\b and \b[A-Z]{3,}\b, as     *)
(* re.findall scans them: left to right, greedy, non-overlapping.          *)
(***************************************************************************)
\* Is character i of text a \w character (FALSE outside the text)?
IsWordAt(text, i) == i >= 1 /\ i <= Len(text) /\ CharAt(text, i) \in WordCharSet

\* \b holds just before character i (i in 1..Len(text)+1).
Boundary(text, i) == IsWordAt(text, i - 1) # IsWordAt(text, i)

\* Length of the longest run of characters of class starting at i.
RECURSIVE RunLen(_, _, _)
RunLen(text, i, class) ==
    IF i <= Len(text) /\ CharAt(text, i) \in class
    THEN 1 + RunLen(text, i + 1, class)
    ELSE 0

\* Length of the match of \b[class]{least,}\b at i, 0 when there is none.
MatchLen(text, i, class, least) ==
    LET run == RunLen(text, i, class)
        ok  == {n \in least..run : Boundary(text, i + n)}
    IN  IF Boundary(text, i) /\ ok # {}
        THEN CHOOSE n \in ok : \A m \in ok : m <= n
        ELSE 0

\* re.findall: the matches, left to right.  A match starts and ends at a \b,
\* so it is a whole run of \w characters; no two matches overlap and the scan
\* skips no position at which one starts.
FindAll(text, class, least) ==
    LET at == Ascending({k \in 1..Len(text) : Boundary(text, k)
                                              /\ MatchLen(text, k, class, least) > 0})
    IN  List([m \in 1..Len(at) |->
            SubSeq(text, at[m], at[m] + MatchLen(text, at[m], class, least) - 1)])

\* Variant: the expression without its least length, \b[A-Za-z]+\b.
FindWordsAnyLength(text) == FindAll(text, LetterSet, 1)

WordsTable == [t \in Range(LowerTable) |-> FindAll(t, LetterSet, 4)]

\* re.findall(r'\b[A-Za-z]{4,}\b', text)
FindWords(text) ==
    IF text \in Range(LowerTable) THEN WordsTable[text] ELSE FindAll(text, LetterSet, 4)

CapsTable == [t \in KnownTexts |-> FindAll(t, UpperSet, 3)]

\* re.findall(r'\b[A-Z]{3,}\b', text)
FindCaps(text) ==
    IF text \in KnownTexts THEN CapsTable[text] ELSE FindAll(text, UpperSet, 3)

(***************************************************************************)
(* Topics, keywords, titles.                                               *)
(***************************************************************************)
\* _extract_topics(text): the five most frequent words of four letters or
\* more that are no stop words; equal counts keep first-seen order.
extract_topics(text) ==
    LET words  == FindWords(lower(text))
        kept   == SelectSeq(words, LAMBDA w : w \notin stop_words)
        keys   == Dedup(kept)
        counts == List([k \in 1..Len(keys) |->
                      Cardinality({i \in 1..Len(kept) : kept[i] = keys[k]})])
    IN  Take(StableSortDesc(keys, counts), 5)

\* Variant: topics and emphasis words concatenated, duplicates kept.
extract_keywords_no_dedup(text, segments) ==
    LET topics         == extract_topics(text)
        emphasis_words == Flatten(List([i \in 1..Len(segments) |->
                                           FindCaps(segments[i].text)]))
    IN  Take(topics \o emphasis_words, 10)

\* _extract_keywords(text, segments): topics, then the all-caps words of the
\* segments, first occurrences only, at most ten.
extract_keywords(text, segments) ==
    LET topics         == extract_topics(text)
        emphasis_words == Flatten(List([i \in 1..Len(segments) |->
                                           FindCaps(segments[i].text)]))
    IN  Take(Dedup(topics \o emphasis_words), 10)

\* text.split(sep) for a one-character separator
RECURSIVE SplitAt(_, _)
SplitAt(text, sep) ==
    LET at == {i \in 1..Len(text) : CharAt(text, i) = sep}
    IN  IF at = {} THEN <<text>>
        ELSE LET k == CHOOSE a \in at : \A b \in at : a <= b
             IN  <<SubSeq(text, 1, k - 1)>> \o SplitAt(SubSeq(text, k + 1, Len(text)), sep)

SentencesTable == [t \in KnownTexts |-> SplitAt(t, ".")]

\* text.split(sep)
Split(text, sep) ==
    IF text \in KnownTexts /\ sep = "." THEN SentencesTable[text] ELSE SplitAt(text, sep)

\* text.strip()
RECURSIVE LStrip(_)
LStrip(text) ==
    IF text # "" /\ Head(text) \in SpaceSet THEN LStrip(Tail(text)) ELSE text

RECURSIVE RStrip(_)
RStrip(text) ==
    IF text # "" /\ CharAt(text, Len(text)) \in SpaceSet
    THEN RStrip(SubSeq(text, 1, Len(text) - 1))
    ELSE text

Strip(text) == RStrip(LStrip(text))

\* _generate_title(text)
generate_title(text) ==
    LET sentences == Split(text, ".")
    IN  IF sentences # <<>>
        THEN LET title == Strip(sentences[1])
             IN  IF Len(title) > 60 THEN SubSeq(title, 1, 57) \o "..." ELSE title
        ELSE "Untitled Clip"

(***************************************************************************)
(* Highlight windows.                                                      *)
(***************************************************************************)
window_size == 30

stride == 5

\* Variant: the number of values rounded down.
PyRangeShort(start, stop, step) ==
    LET n == IF stop > start THEN (stop - start) \div step ELSE 0
    IN  List([k \in 1..n |-> start + (k - 1) * step])

\* range(start, stop, step) for step > 0, as the sequence of its values
PyRange(start, stop, step) ==
    LET n == IF stop > start THEN (stop - start + step - 1) \div step ELSE 0
    IN  List([k \in 1..n |-> start + (k - 1) * step])

\* Variant: the stop of the range without its + 1.
WindowStartsExclusive(duration) == PyRange(0, IntTrunc(duration) - window_size, stride)

\* Variant: the stop of the range without the window size.
WindowStartsNoSize(duration) == PyRange(0, IntTrunc(duration) + 1, stride)

\* The range _detect_highlights iterates; duration in tenths of a second.
WindowStarts(duration) == PyRange(0, IntTrunc(duration) - window_size + 1, stride)

\* Variant: every segment that overlaps the window.
WindowSegmentsOverlap(segments, start, end) ==
    SelectSeq(segments, LAMBDA s : s.start < 10 * end /\ s.end > 10 * start)

\* [s for s in segments if s.start >= start and s.end <= end]; window bounds
\* in seconds, segment times in tenths.
WindowSegments(segments, start, end) ==
    SelectSeq(segments, LAMBDA s : s.start >= 10 * start /\ s.end <= 10 * end)

\* Variant: the mean cut to one decimal instead of rounded.
TruncatedMean(values) == SumSeq(values) \div Len(values)

\* round(np.mean(values), 1), values and result in tenths
RoundedMean(values) == RoundHalfEven(SumSeq(values), Len(values))

\* transcript[:200] + "..." if len(transcript) > 200 else transcript
Description(transcript) ==
    IF Len(transcript) > 200 THEN SubSeq(transcript, 1, 200) \o "..." ELSE transcript

\* The highlight the loop body appends for a window with segments.
WindowHighlight(window_segments, start, end) ==
    LET n          == Len(window_segments)
        transcript == Join(List([i \in 1..n |-> window_segments[i].text]))
    IN  [start            |-> start,
         end              |-> end,
         title            |-> generate_title(transcript),
         description      |-> Description(transcript),
         viral_score      |-> RoundedMean(List([i \in 1..n |-> window_segments[i].viral_score])),
         hook_score       |-> RoundedMean(List([i \in 1..n |-> window_segments[i].hook_score])),
         engagement_score |-> RoundedMean(List([i \in 1..n |-> window_segments[i].engagement_score])),
         keywords         |-> Take(extract_keywords(transcript, window_segments), 5),
         transcript       |-> transcript]

\* The for loop of _detect_highlights: one highlight per window that holds a
\* segment, in the order of the range.
RECURSIVE ScoreWindows(_, _)
ScoreWindows(segments, starts) ==
    IF starts = <<>> THEN <<>>
    ELSE LET start == Head(starts)
             end   == start + window_size
             window_segments == WindowSegments(segments, start, end)
         IN  (IF window_segments = <<>>
              THEN <<>>
              ELSE <<WindowHighlight(window_segments, start, end)>>)
             \o ScoreWindows(segments, Tail(starts))

\* Variant: the sort without reverse=True.
SortByViralAscending(highlights) ==
    StableSortDesc(highlights, List([i \in 1..Len(highlights) |-> -highlights[i].viral_score]))

\* highlights.sort(key=lambda x: x["viral_score"], reverse=True)
SortByViral(highlights) ==
    StableSortDesc(highlights, List([i \in 1..Len(highlights) |-> highlights[i].viral_score]))

\* highlights[:10]
TopHighlights(highlights) == Take(highlights, 10)

(***************************************************************************)
(* Aggregate sentiment.                                                    *)
(***************************************************************************)
\* A dict with no key.
EmptyDict == [k \in {} |-> 0]

\* all_emotions after the aggregation loop of _analyze_sentiment
RECURSIVE AggregateEmotions(_)
AggregateEmotions(segments) ==
    IF segments = <<>>
    THEN [k \in {EmotionLabels[i] : i \in 1..Len(EmotionLabels)} |-> Frac(0, 1)]
    ELSE LET rest == AggregateEmotions(SubSeq(segments, 1, Len(segments) - 1))
             emotions == segments[Len(segments)].emotions
         IN  [k \in DOMAIN rest |-> FAdd(rest[k], emotions[k])]

\* Variant: the last label of maximal value (the comparison with >=).
ArgMaxLast(d) ==
    LET best == CHOOSE i \in 1..Len(EmotionLabels) :
                    /\ \A j \in 1..Len(EmotionLabels) :
                          ~FLess(d[EmotionLabels[i]], d[EmotionLabels[j]])
                    /\ \A j \in (i + 1)..Len(EmotionLabels) :
                          FLess(d[EmotionLabels[j]], d[EmotionLabels[i]])
    IN  EmotionLabels[best]

\* max(d, key=d.get): the first label, in the dict's order, of maximal value
ArgMax(d) ==
    LET best == CHOOSE i \in 1..Len(EmotionLabels) :
                    /\ \A j \in 1..Len(EmotionLabels) :
                          ~FLess(d[EmotionLabels[i]], d[EmotionLabels[j]])
                    /\ \A j \in 1..(i - 1) :
                          FLess(d[EmotionLabels[j]], d[EmotionLabels[i]])
    IN  EmotionLabels[best]

\* total = sum(all_emotions.values()) of _analyze_sentiment
sentiment_total(segments) == SumValues(AggregateEmotions(segments))

\* _analyze_sentiment(segments)
analyze_sentiment(segments) ==
    IF segments = <<>>
    THEN [overall |-> "neutral", score |-> Frac(0, 1)]
    ELSE LET summed == AggregateEmotions(segments)
             total  == SumValues(summed)
             all_emotions ==
                 IF FPos(total)
                 THEN [k \in DOMAIN summed |-> FRound3(FDiv(summed[k], total))]
                 ELSE summed
         IN  [overall      |-> ArgMax(all_emotions),
              distribution |-> all_emotions,
              positive     |-> FAdd(all_emotions.joy, FMul(all_emotions.surprise, Frac(1, 2))),
              negative     |-> FAdd(FAdd(all_emotions.anger, all_emotions.sadness),
                                    all_emotions.fear)]

(***************************************************************************)
(* Inputs.  A transcription is what TranscriptionService.transcribe hands  *)
(* over: segments in chronological order with stripped texts, and the full *)
(* text, the segment texts in order.  The time spans include one that      *)
(* crosses the end of the first window and one whose end precedes its      *)
(* start; the durations include a negative one, zero and a fractional one. *)
(***************************************************************************)
\* Candidate segment time spans, in tenths of a second, by increasing start.
Spans ==
    <<[start |-> 50,  end |-> 100],
      [start |-> 250, end |-> 300],
      [start |-> 280, end |-> 330],
      [start |-> 450, end |-> 400],
      [start |-> 650, end |-> 700]>>

\* Durations, in tenths of a second: -1, 0, 34.9 and 100.
Durations == {-10, 0, 349, 1000}

\* The transcription with the spans of index set I, span k saying text[k].
Transcription(I, text) ==
    LET at   == Ascending(I)
        segs == List([n \in 1..Len(at) |->
                    [start |-> Spans[at[n]].start,
                     end   |-> Spans[at[n]].end,
                     text  |-> text[at[n]]]])
    IN  [segments |-> segs,
         text     |-> Join(List([n \in 1..Len(segs) |-> segs[n].text]))]

(***************************************************************************)
(* One call of AnalysisService.analyze_video.                              *)
(***************************************************************************)
VARIABLES
    transcription,      \* argument: [segments, text]
    duration,           \* argument, tenths of a second
    pc,                 \* where the call stands
    analyzed_segments,  \* the list the scoring loop fills
    window_starts,      \* the range _detect_highlights iterates
    highlights,         \* the list _detect_highlights builds, sorts and cuts
    topics,
    keywords,
    result,             \* the returned dict, NotReturned before the return
    service,            \* the AnalysisService instances: their attributes
    calls,              \* the analyze_video calls under way on them
    frames,             \* the local variables of those calls
    users,              \* table users: role and usage counters
    videos,             \* table videos, by id; a deleted row is None
    clips,              \* table clips, by id; a deleted row is None
    tasks,              \* the Celery tasks queued or running
    storage,            \* the keys of the objects in storage
    response,           \* the answer to the last request
    accepted_uploads    \* per user, the video records the upload routes created

vars == <<transcription, duration, pc, analyzed_segments, window_starts,
          highlights, topics, keywords, result, service, calls, frames,
          users, videos, clips, tasks, storage, response, accepted_uploads>>

\* The state of the application around the analyzer.
application == <<users, videos, clips, tasks, storage, response, accepted_uploads>>

\* The variables of the analyzer calls.
analysis_calls == <<transcription, duration, pc, analyzed_segments, window_starts,
                    highlights, topics, keywords, result, service, calls, frames>>

NotReturned == "pending"

\* The instances a worker may hold.
InstanceIds == {1, 2}

\* AnalysisService(): the attributes __init__ sets.
NewService == [embedding_model |-> "None", embedding_model_name |-> "all-MiniLM-L6-v2"]

\* Optional values: None, or the value in a one-element list.
None == <<>>

Some(x) == <<x>>

\* The registered users.
UserIds == {1, 2}

\* User(...): the role given, the column defaults of the usage counters.
NewUser(role) ==
    [role                  |-> role,
     uploads_count         |-> 0,
     clips_generated_count |-> 0,
     render_credits        |-> 10]

\* Before any request is answered.
NoResponse == [status_code |-> 0, detail |-> ""]

\* Empty tables, an empty queue and an empty store.
NoRecords ==
    /\ users = [u \in UserIds |-> NewUser("user")]
    /\ videos = <<>>
    /\ clips = <<>>
    /\ tasks = <<>>
    /\ storage = {}
    /\ response = NoResponse
    /\ accepted_uploads = [u \in UserIds |-> 0]

\* The instances as constructed, and no further call under way.
NoCalls ==
    /\ service = [i \in InstanceIds |-> NewService]
    /\ calls = <<>>
    /\ frames = <<>>

Init ==
    /\ \E I \in SUBSET (1..Len(Spans)) :
          /\ Cardinality(I) <= MaxSegs
          /\ \E text \in [I -> Texts] : transcription = Transcription(I, text)
    /\ duration \in Durations
    /\ pc = "call"
    /\ analyzed_segments = <<>>
    /\ window_starts = <<>>
    /\ highlights = <<>>
    /\ topics = <<>>
    /\ keywords = <<>>
    /\ result = NotReturned
    /\ NoCalls
    /\ NoRecords

\* Entry of analyze_video: without segments it returns at once.
AnalyzeVideoCall ==
    /\ pc = "call"
    /\ IF transcription.segments = <<>>
       THEN /\ result' = [highlights |-> <<>>,
                          topics     |-> <<>>,
                          keywords   |-> <<>>,
                          sentiment  |-> EmptyDict]
            /\ pc' = "done"
       ELSE /\ result' = result
            /\ pc' = "segments"
    /\ UNCHANGED <<transcription, duration, analyzed_segments, window_starts,
                   highlights, topics, keywords>>
    /\ UNCHANGED <<service, calls, frames, application>>

\* One turn of `for segment in segments`.
AnalyzeSegmentLoop ==
    /\ pc = "segments"
    /\ LET segment  == transcription.segments[Len(analyzed_segments) + 1]
           analysis == analyze_segment(segment, transcription.text)
       IN  analyzed_segments' = Append(analyzed_segments, Annotated(segment, analysis))
    /\ pc' = IF Len(analyzed_segments) + 1 = Len(transcription.segments)
             THEN "windows" ELSE "segments"
    /\ UNCHANGED <<transcription, duration, window_starts, highlights, topics,
                   keywords, result>>
    /\ UNCHANGED <<service, calls, frames, application>>

\* _detect_highlights, the loop over the windows.
DetectHighlightsLoop ==
    /\ pc = "windows"
    /\ window_starts' = WindowStarts(duration)
    /\ highlights' = ScoreWindows(analyzed_segments, WindowStarts(duration))
    /\ pc' = "rank"
    /\ UNCHANGED <<transcription, duration, analyzed_segments, topics, keywords, result>>
    /\ UNCHANGED <<service, calls, frames, application>>

\* _detect_highlights, the sort and the cut to ten.
DetectHighlightsRank ==
    /\ pc = "rank"
    /\ highlights' = TopHighlights(SortByViral(highlights))
    /\ pc' = "topics"
    /\ UNCHANGED <<transcription, duration, analyzed_segments, window_starts,
                   topics, keywords, result>>
    /\ UNCHANGED <<service, calls, frames, application>>

ExtractTopics ==
    /\ pc = "topics"
    /\ topics' = extract_topics(transcription.text)
    /\ pc' = "keywords"
    /\ UNCHANGED <<transcription, duration, analyzed_segments, window_starts,
                   highlights, keywords, result>>
    /\ UNCHANGED <<service, calls, frames, application>>

ExtractKeywords ==
    /\ pc = "keywords"
    /\ keywords' = extract_keywords(transcription.text, transcription.segments)
    /\ pc' = "sentiment"
    /\ UNCHANGED <<transcription, duration, analyzed_segments, window_starts,
                   highlights, topics, result>>
    /\ UNCHANGED <<service, calls, frames, application>>

\* _analyze_sentiment and the return of analyze_video.
AnalyzeSentimentReturn ==
    /\ pc = "sentiment"
    /\ result' = [highlights       |-> highlights,
                  topics           |-> topics,
                  keywords         |-> keywords,
                  sentiment        |-> analyze_sentiment(analyzed_segments),
                  segment_analysis |-> analyzed_segments]
    /\ pc' = "done"
    /\ UNCHANGED <<transcription, duration, analyzed_segments, window_starts,
                   highlights, topics, keywords>>
    /\ UNCHANGED <<service, calls, frames, application>>

Next ==
    \/ AnalyzeVideoCall
    \/ AnalyzeSegmentLoop
    \/ DetectHighlightsLoop
    \/ DetectHighlightsRank
    \/ ExtractTopics
    \/ ExtractKeywords
    \/ AnalyzeSentimentReturn

Spec == Init /\ [][Next]_vars

(***************************************************************************)
(* The same call on transcriptions that draw their texts from the wider    *)
(* set: at most MaxTextSegs segments, at 5 s, 25 s and 65 s.               *)
(***************************************************************************)
\* The spans the wider transcriptions use, as indices of Spans.
TextSpans == {1, 2, 5}

TextInit ==
    /\ \E I \in SUBSET TextSpans :
          /\ Cardinality(I) <= MaxTextSegs
          /\ \E text \in [I -> WideTexts] : transcription = Transcription(I, text)
    /\ duration \in Durations
    /\ pc = "call"
    /\ analyzed_segments = <<>>
    /\ window_starts = <<>>
    /\ highlights = <<>>
    /\ topics = <<>>
    /\ keywords = <<>>
    /\ result = NotReturned
    /\ NoCalls
    /\ NoRecords

TextSpec == TextInit /\ [][Next]_vars

(***************************************************************************)
(* The same call on the texts that decide the emotion scores: no emotion   *)
(* word, one ("WOW"), two, three, and twelve of them, the last driving the *)
(* neutral score of _detect_emotions below zero.                           *)
(***************************************************************************)
EmotionTexts == {TextEmpty, TextCaps, TextMixed, TextLove, TextHype}

EmotionInit ==
    /\ \E I \in SUBSET TextSpans :
          /\ Cardinality(I) <= MaxTextSegs
          /\ \E text \in [I -> EmotionTexts] : transcription = Transcription(I, text)
    /\ duration \in Durations
    /\ pc = "call"
    /\ analyzed_segments = <<>>
    /\ window_starts = <<>>
    /\ highlights = <<>>
    /\ topics = <<>>
    /\ keywords = <<>>
    /\ result = NotReturned
    /\ NoCalls
    /\ NoRecords

EmotionSpec == EmotionInit /\ [][Next]_vars

(***************************************************************************)
(* Several calls of analyze_video under way at once, on one instance or on *)
(* two.  A call advances one statement of analyze_video at a time and the  *)
(* calls interleave freely.  A call reads its arguments and its instance,  *)
(* and keeps what it computes in the local variables of its own frame.     *)
(***************************************************************************)
CallIds == 1..MaxCalls

\* What the calls are made with: no segment and duration 0, one segment, two
\* segments (duration 34.9 s, a single window).
CallInputs ==
    {[transcription |-> Transcription({}, <<>>), duration |-> 0],
     [transcription |-> Transcription({1}, (1 :> TextSecret)), duration |-> 349],
     [transcription |-> Transcription({1, 2}, (1 :> TextLove) @@ (2 :> TextSecret)),
      duration |-> 349]}

\* Where local variables can live: in the frame of a call, or on an instance.
Cells == {<<"frame", c>> : c \in CallIds} \cup {<<"self", i>> : i \in InstanceIds}

\* The local variables of analyze_video before their assignment.
EmptyLocals ==
    [analyzed_segments |-> <<>>, highlights |-> <<>>, topics |-> <<>>, keywords |-> <<>>]

\* Variant: the variables kept as attributes of the instance (self.x).
CellOnSelf(c) == <<"self", calls[c].self>>

\* The variables of analyze_video are locals: each call has its own.
Cell(c) == <<"frame", c>>

\* Variant: segment.update(analysis), the input segment annotated in place.
InputAfterUpdate(segment, analysis) == Annotated(segment, analysis)

\* {**segment, **analysis} builds a new dict: the input segment stays.
InputAfter(segment, analysis) == segment

\* analyze_video run on its own, from its arguments to its result.
analyze_video(tr, dur) ==
    IF tr.segments = <<>>
    THEN [highlights |-> <<>>, topics |-> <<>>, keywords |-> <<>>, sentiment |-> EmptyDict]
    ELSE LET analyzed == List([i \in 1..Len(tr.segments) |->
                                 Annotated(tr.segments[i],
                                           analyze_segment(tr.segments[i], tr.text))])
         IN  [highlights       |-> TopHighlights(SortByViral(
                                       ScoreWindows(analyzed, WindowStarts(dur)))),
              topics           |-> extract_topics(tr.text),
              keywords         |-> extract_keywords(tr.text, tr.segments),
              sentiment        |-> analyze_sentiment(analyzed),
              segment_analysis |-> analyzed]

ServiceInit ==
    /\ service = [i \in InstanceIds |-> NewService]
    /\ calls \in [CallIds ->
                    {[self          |-> i,
                      transcription |-> in.transcription,
                      duration      |-> in.duration,
                      pc            |-> "call",
                      next          |-> 1,
                      result        |-> NotReturned] : i \in InstanceIds, in \in CallInputs}]
    /\ frames = [k \in Cells |-> EmptyLocals]
    /\ transcription = Transcription({}, <<>>)
    /\ duration = 0
    /\ pc = "idle"
    /\ analyzed_segments = <<>>
    /\ window_starts = <<>>
    /\ highlights = <<>>
    /\ topics = <<>>
    /\ keywords = <<>>
    /\ result = NotReturned
    /\ NoRecords

\* Lines 29-36: the arguments are read; without segments the call returns,
\* otherwise analyzed_segments starts empty.
CallEntry(c) ==
    /\ calls[c].pc = "call"
    /\ IF calls[c].transcription.segments = <<>>
       THEN /\ calls' = [calls EXCEPT ![c].pc = "done",
                                      ![c].result = [highlights |-> <<>>,
                                                     topics     |-> <<>>,
                                                     keywords   |-> <<>>,
                                                     sentiment  |-> EmptyDict]]
            /\ frames' = frames
       ELSE /\ calls' = [calls EXCEPT ![c].pc = "segments"]
            /\ frames' = [frames EXCEPT ![Cell(c)].analyzed_segments = <<>>]
    /\ UNCHANGED <<service, transcription, duration, pc, analyzed_segments,
                   window_starts, highlights, topics, keywords, result>>
    /\ UNCHANGED application

\* Lines 37-39: one turn of the loop over the segments.
CallSegment(c) ==
    /\ calls[c].pc = "segments"
    /\ LET k        == calls[c].next
           segment  == calls[c].transcription.segments[k]
           analysis == analyze_segment(segment, calls[c].transcription.text)
       IN  /\ frames' = [frames EXCEPT ![Cell(c)].analyzed_segments =
                                           Append(@, Annotated(segment, analysis))]
           /\ calls' = [calls EXCEPT
                 ![c].transcription.segments[k] = InputAfter(segment, analysis),
                 ![c].next = k + 1,
                 ![c].pc = IF k = Len(calls[c].transcription.segments)
                           THEN "highlights" ELSE "segments"]
    /\ UNCHANGED <<service, transcription, duration, pc, analyzed_segments,
                   window_starts, highlights, topics, keywords, result>>
    /\ UNCHANGED application

\* Line 42: highlights = self._detect_highlights(analyzed_segments, duration)
CallHighlights(c) ==
    /\ calls[c].pc = "highlights"
    /\ frames' = [frames EXCEPT ![Cell(c)].highlights =
                     TopHighlights(SortByViral(
                         ScoreWindows(frames[Cell(c)].analyzed_segments,
                                      WindowStarts(calls[c].duration))))]
    /\ calls' = [calls EXCEPT ![c].pc = "topics"]
    /\ UNCHANGED <<service, transcription, duration, pc, analyzed_segments,
                   window_starts, highlights, topics, keywords, result>>
    /\ UNCHANGED application

\* Line 45: topics = self._extract_topics(full_text)
CallTopics(c) ==
    /\ calls[c].pc = "topics"
    /\ frames' = [frames EXCEPT ![Cell(c)].topics =
                     extract_topics(calls[c].transcription.text)]
    /\ calls' = [calls EXCEPT ![c].pc = "keywords"]
    /\ UNCHANGED <<service, transcription, duration, pc, analyzed_segments,
                   window_starts, highlights, topics, keywords, result>>
    /\ UNCHANGED application

\* Line 48: keywords = self._extract_keywords(full_text, segments)
CallKeywords(c) ==
    /\ calls[c].pc = "keywords"
    /\ frames' = [frames EXCEPT ![Cell(c)].keywords =
                     extract_keywords(calls[c].transcription.text,
                                      calls[c].transcription.segments)]
    /\ calls' = [calls EXCEPT ![c].pc = "sentiment"]
    /\ UNCHANGED <<service, transcription, duration, pc, analyzed_segments,
                   window_starts, highlights, topics, keywords, result>>
    /\ UNCHANGED application

\* Lines 51-59: the sentiment and the return.
CallReturn(c) ==
    /\ calls[c].pc = "sentiment"
    /\ LET locals == frames[Cell(c)]
       IN  calls' = [calls EXCEPT
                 ![c].pc = "done",
                 ![c].result = [highlights       |-> locals.highlights,
                                topics           |-> locals.topics,
                                keywords         |-> locals.keywords,
                                sentiment        |-> analyze_sentiment(locals.analyzed_segments),
                                segment_analysis |-> locals.analyzed_segments]]
    /\ UNCHANGED <<service, frames, transcription, duration, pc, analyzed_segments,
                   window_starts, highlights, topics, keywords, result>>
    /\ UNCHANGED application

ServiceNext ==
    \E c \in CallIds :
        \/ CallEntry(c)
        \/ CallSegment(c)
        \/ CallHighlights(c)
        \/ CallTopics(c)
        \/ CallKeywords(c)
        \/ CallReturn(c)

ServiceSpec == ServiceInit /\ [][ServiceNext]_vars

(***************************************************************************)
(* The application around the analyzer: the video and clip routes          *)
(* (app/api/routes), the services they call (app/services), the usage      *)
(* checks of the user model and the two Celery tasks (app/workers/tasks.py).*)
(* A request handler is one step.  A task is one step per external call    *)
(* and committed update, so that requests and other tasks interleave with  *)
(* it.  Clip and highlight times are whole seconds.                        *)
(***************************************************************************)
PaidRoles == {"pro", "agency", "admin"}

\* User.can_upload
can_upload(user) ==
    IF user.role \in PaidRoles THEN TRUE ELSE user.uploads_count < 5

\* User.can_render
can_render(user) ==
    IF user.role \in PaidRoles THEN TRUE ELSE user.render_credits > 0

\* Video.is_processing
is_processing(video) ==
    video.status \in {"uploading", "transcribing", "analyzing", "processing"}

VideoIds == 1..MaxVideos

ClipIds == 1..MaxClips

\* VideoService.get_by_id: the row, or None
video_get_by_id(video_id) ==
    IF video_id \in 1..Len(videos) THEN videos[video_id] ELSE None

\* ClipService.get_by_id: the row, or None
clip_get_by_id(clip_id) ==
    IF clip_id \in 1..Len(clips) THEN clips[clip_id] ELSE None

\* The file types a request may declare.
FileTypes == {"video/mp4", "text/plain"}

\* file_type.split("/")[-1]
RECURSIVE LastPart(_)
LastPart(file_type) ==
    IF \E i \in 1..Len(file_type) : CharAt(file_type, i) = "/"
    THEN LastPart(Tail(file_type))
    ELSE file_type

allowed_extensions == {"mp4", "mov", "avi", "mkv", "webm", "mp3", "wav", "m4a", "flac"}

allowed_types == {"video/mp4", "video/quicktime", "video/x-msvideo",
                  "video/x-matroska", "video/webm"}

\* VideoService.create: the row of a new video
NewVideo(user_id, title) ==
    [user_id          |-> user_id,
     title            |-> title,
     status           |-> "pending",
     progress_percent |-> 0,
     transcription    |-> None,
     analysis_results |-> None,
     error_message    |-> None]

\* The storage keys of a video, of a rendered clip and of its thumbnail.
VideoKey(video_id) == <<"videos", video_id>>

ClipKey(clip_id) == <<"clips", clip_id>>

ThumbnailKey(clip_id) == <<"thumbnails", clip_id>>

\* task.delay(id): the task joins the queue.
Delay(name, id) ==
    Append(tasks, [name |-> name, id |-> id, pc |-> "queued", local |-> None])

\* The queue without task t, which has returned or raised.
Finished(t) == SubSeq(tasks, 1, t - 1) \o SubSeq(tasks, t + 1, Len(tasks))

Respond(status_code, detail) ==
    response' = [status_code |-> status_code, detail |-> detail]

\* What TranscriptionService.transcribe returns: one segment in a recording
\* of 40 seconds.
Transcripts ==
    <<[segments |-> Transcription({1}, (1 :> TextSecret)).segments,
       text     |-> Transcription({1}, (1 :> TextSecret)).text,
       duration |-> 400]>>

\* analyze_video on each of them, computed once.
Analyses ==
    List([i \in 1..Len(Transcripts) |->
            analyze_video(Transcripts[i], Transcripts[i].duration)])

\* AnalysisService().analyze_video(transcription, duration) in the task
AnalysisOf(transcription_result) ==
    Analyses[CHOOSE i \in 1..Len(Transcripts) : Transcripts[i] = transcription_result]

\* VideoService.update_status / update_transcription / update_analysis /
\* complete_processing / fail_processing: the row after the update; a row
\* that is gone stays gone.
VideoUpdated(video_id, change(_)) ==
    IF video_get_by_id(video_id) = None
    THEN videos
    ELSE [videos EXCEPT ![video_id] = Some(change(@[1]))]

\* ---- video routes ------------------------------------------------------

\* POST /videos/upload-url
get_upload_url(u, title, file_type) ==
    /\ IF ~can_upload(users[u])
       THEN /\ Respond(403, "Upload limit reached. Please upgrade your plan.")
            /\ UNCHANGED <<users, videos, clips, tasks, storage, accepted_uploads>>
       ELSE IF lower(LastPart(file_type)) \notin allowed_extensions
       THEN /\ Respond(400, "Invalid file type")
            /\ UNCHANGED <<users, videos, clips, tasks, storage, accepted_uploads>>
       ELSE /\ Len(videos) < MaxVideos
            /\ videos' = Append(videos, Some(NewVideo(u, title)))
            /\ accepted_uploads' = [accepted_uploads EXCEPT ![u] = @ + 1]
            /\ Respond(200, "")
            /\ UNCHANGED <<users, clips, tasks, storage>>
    /\ UNCHANGED analysis_calls

\* POST /videos/upload, with VideoService.upload_video
upload_video(u, title, content_type) ==
    /\ IF ~can_upload(users[u])
       THEN /\ Respond(403, "Upload limit reached. Please upgrade your plan.")
            /\ UNCHANGED <<users, videos, clips, tasks, storage, accepted_uploads>>
       ELSE IF content_type \notin allowed_types
       THEN /\ Respond(400, "Invalid file type")
            /\ UNCHANGED <<users, videos, clips, tasks, storage, accepted_uploads>>
       ELSE /\ Len(videos) < MaxVideos
            /\ Len(tasks) < MaxTasks
            /\ videos' = Append(videos, Some([NewVideo(u, title) EXCEPT
                                                 !.status = "uploaded",
                                                 !.progress_percent = 100]))
            /\ storage' = storage \cup {VideoKey(Len(videos) + 1)}
            /\ users' = [users EXCEPT ![u].uploads_count = @ + 1]
            /\ tasks' = Delay("process_video_task", Len(videos) + 1)
            /\ accepted_uploads' = [accepted_uploads EXCEPT ![u] = @ + 1]
            /\ Respond(200, "")
            /\ UNCHANGED clips
    /\ UNCHANGED analysis_calls

\* Variant: only a missing row is not found.
VideoMissing(u, video_id) == video_get_by_id(video_id) = None

\* The check every route on one video starts with.
VideoNotFound(u, video_id) ==
    LET video == video_get_by_id(video_id)
    IN  video = None \/ video[1].user_id # u

\* GET /videos/{video_id}
get_video(u, video_id) ==
    /\ IF VideoNotFound(u, video_id)
       THEN Respond(404, "Video not found")
       ELSE Respond(200, "")
    /\ UNCHANGED <<users, videos, clips, tasks, storage, accepted_uploads>>
    /\ UNCHANGED analysis_calls

\* PATCH /videos/{video_id}
update_video(u, video_id, title) ==
    /\ IF VideoNotFound(u, video_id)
       THEN /\ Respond(404, "Video not found")
            /\ videos' = videos
       ELSE /\ videos' = [videos EXCEPT ![video_id] = Some([@[1] EXCEPT !.title = title])]
            /\ Respond(200, "")
    /\ UNCHANGED <<users, clips, tasks, storage, accepted_uploads>>
    /\ UNCHANGED analysis_calls

\* video.clips: the ids of the clips of the video
ClipsOf(video_id) ==
    {c \in 1..Len(clips) : clips[c] # None /\ clips[c][1].video_id = video_id}

\* The objects in storage a clip row names.
KeysOf(clip) ==
    {clip.storage_key[i] : i \in 1..Len(clip.storage_key)}
        \cup {clip.thumbnail_key[i] : i \in 1..Len(clip.thumbnail_key)}

\* DELETE /videos/{video_id}.  The objects go first.  The relationship
\* Video.clips declares no cascade while clips.video_id is NOT NULL with
\* ON DELETE CASCADE: deleting a video that has clips either removes them
\* with it or fails at the commit, as the ORM and the database decide.
delete_video(u, video_id, cascades) ==
    /\ IF VideoNotFound(u, video_id)
       THEN /\ Respond(404, "Video not found")
            /\ UNCHANGED <<users, videos, clips, tasks, storage, accepted_uploads>>
       ELSE /\ storage' = (storage \ {VideoKey(video_id)})
                             \ UNION {KeysOf(clips[c][1]) : c \in ClipsOf(video_id)}
            /\ IF ClipsOf(video_id) = {} \/ cascades
               THEN /\ videos' = [videos EXCEPT ![video_id] = None]
                    /\ clips' = [c \in 1..Len(clips) |->
                                    IF c \in ClipsOf(video_id) THEN None ELSE clips[c]]
                    /\ Respond(204, "")
               ELSE /\ UNCHANGED <<videos, clips>>
                    /\ Respond(500, "IntegrityError")
            /\ UNCHANGED <<users, tasks, accepted_uploads>>
    /\ UNCHANGED analysis_calls

\* POST /videos/{video_id}/process, with VideoService.start_processing
process_video(u, video_id) ==
    /\ IF VideoNotFound(u, video_id)
       THEN /\ Respond(404, "Video not found")
            /\ UNCHANGED <<users, videos, clips, tasks, storage, accepted_uploads>>
       ELSE IF is_processing(videos[video_id][1])
       THEN /\ Respond(400, "Video is already being processed")
            /\ UNCHANGED <<users, videos, clips, tasks, storage, accepted_uploads>>
       ELSE /\ Len(tasks) < MaxTasks
            /\ videos' = [videos EXCEPT ![video_id] = Some([@[1] EXCEPT
                                                               !.status = "processing",
                                                               !.progress_percent = 0])]
            /\ tasks' = Delay("process_video_task", video_id)
            /\ Respond(200, "Video processing started")
            /\ UNCHANGED <<users, clips, storage, accepted_uploads>>
    /\ UNCHANGED analysis_calls

\* GET /videos/{video_id}/transcription
get_transcription(u, video_id) ==
    /\ IF VideoNotFound(u, video_id)
       THEN Respond(404, "Video not found")
       ELSE IF videos[video_id][1].transcription = None
       THEN Respond(400, "Transcription not available yet")
       ELSE Respond(200, "transcription")
    /\ UNCHANGED <<users, videos, clips, tasks, storage, accepted_uploads>>
    /\ UNCHANGED analysis_calls

\* ---- process_video_task ------------------------------------------------

\* Lines 32-42: the video is looked up; without it the task returns,
\* otherwise the status becomes TRANSCRIBING.
ProcessStart(t) ==
    /\ tasks[t].name = "process_video_task"
    /\ tasks[t].pc = "queued"
    /\ IF video_get_by_id(tasks[t].id) = None
       THEN /\ tasks' = Finished(t)
            /\ videos' = videos
       ELSE /\ videos' = [videos EXCEPT ![tasks[t].id] = Some([@[1] EXCEPT
                                              !.status = "transcribing",
                                              !.progress_percent = 10])]
            /\ tasks' = [tasks EXCEPT ![t].pc = "transcribe"]
    /\ UNCHANGED <<users, clips, storage, response, accepted_uploads>>
    /\ UNCHANGED analysis_calls

\* Lines 44-55: the transcription is made and stored.
ProcessTranscribe(t) ==
    /\ tasks[t].name = "process_video_task"
    /\ tasks[t].pc = "transcribe"
    /\ \E i \in 1..Len(Transcripts) :
          LET stored(video) == [video EXCEPT !.transcription = Some(Transcripts[i]),
                                             !.status = "transcribed"]
          IN  /\ videos' = VideoUpdated(tasks[t].id, stored)
              /\ tasks' = [tasks EXCEPT ![t].pc = "analyzing",
                                        ![t].local = Some(Transcripts[i])]
    /\ UNCHANGED <<users, clips, storage, response, accepted_uploads>>
    /\ UNCHANGED analysis_calls

\* Lines 58-62: the status becomes ANALYZING.
ProcessAnalyzing(t) ==
    /\ tasks[t].name = "process_video_task"
    /\ tasks[t].pc = "analyzing"
    /\ LET analyzing(video) == [video EXCEPT !.status = "analyzing",
                                             !.progress_percent = 50]
       IN  videos' = VideoUpdated(tasks[t].id, analyzing)
    /\ tasks' = [tasks EXCEPT ![t].pc = "analyze"]
    /\ UNCHANGED <<users, clips, storage, response, accepted_uploads>>
    /\ UNCHANGED analysis_calls

\* Variant: the analysis is made but not stored.
ProcessAnalyzeUnstored(t) ==
    /\ tasks[t].name = "process_video_task"
    /\ tasks[t].pc = "analyze"
    /\ LET stored(video) == [video EXCEPT !.status = "analyzed"]
       IN  videos' = VideoUpdated(tasks[t].id, stored)
    /\ tasks' = [tasks EXCEPT ![t].pc = "complete"]
    /\ UNCHANGED <<users, clips, storage, response, accepted_uploads>>
    /\ UNCHANGED analysis_calls

\* Lines 64-70: the analysis is made from the task's own transcription and
\* stored; video.duration_seconds is never set, the duration is the
\* transcription's.
ProcessAnalyze(t) ==
    /\ tasks[t].name = "process_video_task"
    /\ tasks[t].pc = "analyze"
    /\ LET analysis == AnalysisOf(tasks[t].local[1])
           stored(video) == [video EXCEPT !.analysis_results = Some(analysis),
                                          !.status = "analyzed"]
       IN  videos' = VideoUpdated(tasks[t].id, stored)
    /\ tasks' = [tasks EXCEPT ![t].pc = "complete"]
    /\ UNCHANGED <<users, clips, storage, response, accepted_uploads>>
    /\ UNCHANGED analysis_calls

\* Line 73: complete_processing, and the task returns.
ProcessComplete(t) ==
    /\ tasks[t].name = "process_video_task"
    /\ tasks[t].pc = "complete"
    /\ LET completed(video) == [video EXCEPT !.status = "completed",
                                             !.progress_percent = 100]
       IN  videos' = VideoUpdated(tasks[t].id, completed)
    /\ tasks' = Finished(t)
    /\ UNCHANGED <<users, clips, storage, response, accepted_uploads>>
    /\ UNCHANGED analysis_calls

\* Lines 77-80 and 188-191, after fail_processing / fail_render: the
\* expression self.retry(...) is evaluated in a function that has no name
\* self, which raises NameError; the task ends with that error and nothing
\* is queued.
AfterRaise(t) == Finished(t)

\* The steps of the processing task that raise, with the text of the
\* exception.
RaisedAt == [transcribe |-> "Transcription failed", analyze |-> "Analysis failed"]

\* Lines 77-80: the transcription or the analysis raises; the handler stores
\* FAILED with the text of the exception.
ProcessRaise(t) ==
    /\ tasks[t].name = "process_video_task"
    /\ tasks[t].pc \in DOMAIN RaisedAt
    /\ LET failed(video) == [video EXCEPT
                                !.status = "failed",
                                !.error_message = Some(RaisedAt[tasks[t].pc])]
       IN  videos' = VideoUpdated(tasks[t].id, failed)
    /\ tasks' = AfterRaise(t)
    /\ UNCHANGED <<users, clips, storage, response, accepted_uploads>>
    /\ UNCHANGED analysis_calls

\* ---- clip routes -------------------------------------------------------

\* ClipService.create: the row of a new clip
NewClip(user_id, clip_data) ==
    [video_id         |-> clip_data.video_id,
     user_id          |-> user_id,
     title            |-> clip_data.title,
     start_time       |-> clip_data.start_time,
     end_time         |-> clip_data.end_time,
     duration_seconds |-> clip_data.end_time - clip_data.start_time,
     status           |-> "pending",
     progress_percent |-> 0,
     storage_key      |-> None,
     thumbnail_key    |-> None,
     error_message    |-> None,
     style_preset     |-> "modern"]

\* ClipService.update_status / complete_render / fail_render: the rows after
\* the update; a row that is gone stays gone.
ClipUpdated(clip_id, change(_)) ==
    IF clip_get_by_id(clip_id) = None
    THEN clips
    ELSE [clips EXCEPT ![clip_id] = Some(change(@[1]))]

\* ClipService.auto_generate_clips, "Adjust duration if needed"
AdjustedEnd(start_time, end_time, min_duration, max_duration) ==
    IF end_time - start_time < min_duration
    THEN start_time + min_duration
    ELSE IF end_time - start_time > max_duration
    THEN start_time + max_duration
    ELSE end_time

\* ClipService.auto_generate_clips: the ClipCreate of each of the first
\* max_clips highlights, in their order.
AutoClipData(video_id, video_highlights, max_clips, min_duration, max_duration) ==
    LET top == Take(video_highlights, max_clips)
    IN  List([i \in 1..Len(top) |->
                [title      |-> "Clip " \o ToString(i) \o ": " \o top[i].title,
                 video_id   |-> video_id,
                 start_time |-> top[i].start,
                 end_time   |-> AdjustedEnd(top[i].start, top[i].end,
                                            min_duration, max_duration)]])

\* The bodies AutoGenerateClipsRequest accepts that a request may carry:
\* the defaults cut to one clip, a short maximum, a long minimum, and a
\* minimum above the maximum.
AutoGenerateRequests ==
    {[video_id |-> v, max_clips |-> r[1], min_duration |-> r[2], max_duration |-> r[3]] :
        v \in VideoIds, r \in {<<1, 15, 60>>, <<2, 5, 10>>, <<2, 40, 60>>, <<1, 40, 10>>}}

\* POST /clips/auto-generate, with ClipService.auto_generate_clips
auto_generate_clips(u, request) ==
    /\ IF ~can_render(users[u])
       THEN /\ Respond(403, "Render credits exhausted. Please upgrade your plan.")
            /\ clips' = clips
       ELSE IF VideoNotFound(u, request.video_id)
       THEN /\ Respond(404, "Video not found")
            /\ clips' = clips
       ELSE IF videos[request.video_id][1].transcription = None
       THEN /\ Respond(400, "Video must be transcribed first")
            /\ clips' = clips
       ELSE IF videos[request.video_id][1].analysis_results = None
       THEN /\ Respond(500, "Video analysis not available")
            /\ clips' = clips
       ELSE LET data == AutoClipData(request.video_id,
                                     videos[request.video_id][1].analysis_results[1].highlights,
                                     request.max_clips, request.min_duration,
                                     request.max_duration)
            IN  /\ Len(clips) + Len(data) <= MaxClips
                /\ clips' = clips \o List([i \in 1..Len(data) |-> Some(NewClip(u, data[i]))])
                /\ Respond(200, "")
    /\ UNCHANGED <<users, videos, tasks, storage, accepted_uploads, analysis_calls>>

\* The bodies of POST /clips/manual a request may carry.
ManualClips ==
    {[title |-> "Manual", video_id |-> v, start_time |-> r[1], end_time |-> r[2]] :
        v \in VideoIds, r \in {<<0, 30>>, <<30, 30>>, <<0, 4>>}}

\* POST /clips/manual
create_manual_clip(u, clip_data) ==
    /\ IF ~can_render(users[u])
       THEN /\ Respond(403, "Render credits exhausted. Please upgrade your plan.")
            /\ clips' = clips
       ELSE IF VideoNotFound(u, clip_data.video_id)
       THEN /\ Respond(404, "Video not found")
            /\ clips' = clips
       ELSE IF clip_data.start_time >= clip_data.end_time
       THEN /\ Respond(400, "Start time must be before end time")
            /\ clips' = clips
       ELSE IF clip_data.end_time - clip_data.start_time < 5
               \/ clip_data.end_time - clip_data.start_time > 180
       THEN /\ Respond(400, "Clip duration must be between 5 and 180 seconds")
            /\ clips' = clips
       ELSE /\ Len(clips) < MaxClips
            /\ clips' = Append(clips, Some(NewClip(u, clip_data)))
            /\ Respond(200, "")
    /\ UNCHANGED <<users, videos, tasks, storage, accepted_uploads, analysis_calls>>

\* The check every route on one clip makes.
ClipNotFound(u, clip_id) ==
    LET clip == clip_get_by_id(clip_id)
    IN  clip = None \/ clip[1].user_id # u

\* GET /clips/{clip_id}
get_clip(u, clip_id) ==
    /\ IF ClipNotFound(u, clip_id)
       THEN Respond(404, "Clip not found")
       ELSE Respond(200, "")
    /\ UNCHANGED <<users, videos, clips, tasks, storage, accepted_uploads, analysis_calls>>

\* PATCH /clips/{clip_id}
update_clip(u, clip_id, style_preset) ==
    /\ IF ClipNotFound(u, clip_id)
       THEN /\ Respond(404, "Clip not found")
            /\ clips' = clips
       ELSE /\ clips' = [clips EXCEPT ![clip_id] =
                            Some([@[1] EXCEPT !.style_preset = style_preset])]
            /\ Respond(200, "")
    /\ UNCHANGED <<users, videos, tasks, storage, accepted_uploads, analysis_calls>>

\* POST /clips/{clip_id}/render, with ClipService.start_render
render_clip(u, clip_id, style_preset) ==
    /\ IF ~can_render(users[u])
       THEN /\ Respond(403, "Render credits exhausted. Please upgrade your plan.")
            /\ UNCHANGED <<clips, tasks>>
       ELSE IF ClipNotFound(u, clip_id)
       THEN /\ Respond(404, "Clip not found")
            /\ UNCHANGED <<clips, tasks>>
       ELSE IF clips[clip_id][1].status = "rendering"
       THEN /\ Respond(400, "Clip is already being rendered")
            /\ UNCHANGED <<clips, tasks>>
       ELSE /\ Len(tasks) < MaxTasks
            /\ users[u].clips_generated_count < MaxRenders
            /\ clips' = [clips EXCEPT ![clip_id] = Some([@[1] EXCEPT
                                                           !.style_preset = style_preset,
                                                           !.status = "queued",
                                                           !.progress_percent = 0])]
            /\ tasks' = Delay("render_clip_task", clip_id)
            /\ Respond(200, "")
    /\ UNCHANGED <<users, videos, storage, accepted_uploads, analysis_calls>>

\* DELETE /clips/{clip_id}
delete_clip(u, clip_id) ==
    /\ IF ClipNotFound(u, clip_id)
       THEN /\ Respond(404, "Clip not found")
            /\ UNCHANGED <<clips, storage>>
       ELSE /\ storage' = storage \ KeysOf(clips[clip_id][1])
            /\ clips' = [clips EXCEPT ![clip_id] = None]
            /\ Respond(204, "")
    /\ UNCHANGED <<users, videos, tasks, accepted_uploads, analysis_calls>>

\* GET /clips/{clip_id}/download
download_clip(u, clip_id) ==
    /\ IF ClipNotFound(u, clip_id)
       THEN Respond(404, "Clip not found")
       ELSE IF clips[clip_id][1].status # "completed"
       THEN Respond(400, "Clip is not ready for download")
       ELSE Respond(200, "download_url")
    /\ UNCHANGED <<users, videos, clips, tasks, storage, accepted_uploads, analysis_calls>>

\* ---- render_clip_task --------------------------------------------------

\* Lines 98-114: the clip is looked up, without it the task returns; without
\* its video the task raises; otherwise the status becomes RENDERING.
RenderStart(t) ==
    /\ tasks[t].name = "render_clip_task"
    /\ tasks[t].pc = "queued"
    /\ LET clip == clip_get_by_id(tasks[t].id)
           failed(row) == [row EXCEPT !.status = "failed",
                                      !.error_message = Some("Source video not found")]
           rendering(row) == [row EXCEPT !.status = "rendering",
                                         !.progress_percent = 10]
       IN  IF clip = None
           THEN /\ tasks' = Finished(t)
                /\ clips' = clips
           ELSE IF video_get_by_id(clip[1].video_id) = None
           THEN /\ clips' = ClipUpdated(tasks[t].id, failed)
                /\ tasks' = AfterRaise(t)
           ELSE /\ clips' = ClipUpdated(tasks[t].id, rendering)
                /\ tasks' = [tasks EXCEPT ![t].pc = "progress",
                                          ![t].local = Some(clip[1].video_id)]
    /\ UNCHANGED <<users, videos, storage, response, accepted_uploads>>
    /\ UNCHANGED analysis_calls

\* Lines 122-126: progress 20.
RenderProgress(t) ==
    /\ tasks[t].name = "render_clip_task"
    /\ tasks[t].pc = "progress"
    /\ LET rendering(row) == [row EXCEPT !.status = "rendering",
                                         !.progress_percent = 20]
       IN  clips' = ClipUpdated(tasks[t].id, rendering)
    /\ tasks' = [tasks EXCEPT ![t].pc = "download"]
    /\ UNCHANGED <<users, videos, storage, response, accepted_uploads>>
    /\ UNCHANGED analysis_calls

\* Lines 128-140: the source is fetched from storage, progress 40; without
\* the object the task raises.
RenderDownload(t) ==
    /\ tasks[t].name = "render_clip_task"
    /\ tasks[t].pc = "download"
    /\ LET failed(row) == [row EXCEPT
                              !.status = "failed",
                              !.error_message = Some("Failed to download source video")]
           rendering(row) == [row EXCEPT !.status = "rendering",
                                         !.progress_percent = 40]
       IN  IF VideoKey(tasks[t].local[1]) \in storage
           THEN /\ clips' = ClipUpdated(tasks[t].id, rendering)
                /\ tasks' = [tasks EXCEPT ![t].pc = "ffmpeg"]
           ELSE /\ clips' = ClipUpdated(tasks[t].id, failed)
                /\ tasks' = AfterRaise(t)
    /\ UNCHANGED <<users, videos, storage, response, accepted_uploads>>
    /\ UNCHANGED analysis_calls

\* Lines 142-157: FFmpeg renders the clip and its thumbnail, progress 80.
RenderFfmpeg(t) ==
    /\ tasks[t].name = "render_clip_task"
    /\ tasks[t].pc = "ffmpeg"
    /\ LET rendering(row) == [row EXCEPT !.status = "rendering",
                                         !.progress_percent = 80]
       IN  clips' = ClipUpdated(tasks[t].id, rendering)
    /\ tasks' = [tasks EXCEPT ![t].pc = "upload"]
    /\ UNCHANGED <<users, videos, storage, response, accepted_uploads>>
    /\ UNCHANGED analysis_calls

\* Lines 188-191: FFmpeg raises; the handler stores FAILED with the text of
\* the exception.
RenderRaise(t) ==
    /\ tasks[t].name = "render_clip_task"
    /\ tasks[t].pc = "ffmpeg"
    /\ LET failed(row) == [row EXCEPT !.status = "failed",
                                      !.error_message = Some("ffmpeg failed")]
       IN  clips' = ClipUpdated(tasks[t].id, failed)
    /\ tasks' = AfterRaise(t)
    /\ UNCHANGED <<users, videos, storage, response, accepted_uploads>>
    /\ UNCHANGED analysis_calls

\* Variant: the counter of the owner is left alone.
CountedNever(user_table, clip) == user_table

\* UserService.increment_clips_generated for the owner of the clip
Counted(user_table, clip) ==
    [user_table EXCEPT ![clip.user_id].clips_generated_count = @ + 1]

\* Lines 159-184 with ClipService.complete_render: the clip and its
\* thumbnail are uploaded, the row is completed and the owner's counter is
\* incremented; the task returns.
RenderComplete(t) ==
    /\ tasks[t].name = "render_clip_task"
    /\ tasks[t].pc = "upload"
    /\ storage' = storage \cup {ClipKey(tasks[t].id), ThumbnailKey(tasks[t].id)}
    /\ LET completed(row) == [row EXCEPT !.status = "completed",
                                         !.storage_key = Some(ClipKey(tasks[t].id)),
                                         !.thumbnail_key = Some(ThumbnailKey(tasks[t].id)),
                                         !.progress_percent = 100]
       IN  clips' = ClipUpdated(tasks[t].id, completed)
    /\ users' = IF clip_get_by_id(tasks[t].id) = None
                THEN users
                ELSE Counted(users, clips[tasks[t].id][1])
    /\ tasks' = Finished(t)
    /\ UNCHANGED <<videos, response, accepted_uploads>>
    /\ UNCHANGED analysis_calls

\* ---- the video pipeline -------------------------------------------------

\* The uploads the free user made, and deleted again, before: one short of
\* the limit.
PriorUploads == {4}

\* No analyze_video call of the single-call kind is under way.
NoAnalysisCall ==
    /\ NoCalls
    /\ transcription = Transcription({}, <<>>)
    /\ duration = 0
    /\ pc = "idle"
    /\ analyzed_segments = <<>>
    /\ window_starts = <<>>
    /\ highlights = <<>>
    /\ topics = <<>>
    /\ keywords = <<>>
    /\ result = NotReturned

\* Two users, the first on the free tier, and nothing stored or queued.
VideoInit ==
    /\ \E prior \in PriorUploads, role \in {"pro"} :
          /\ users = [u \in UserIds |->
                        IF u = 1
                        THEN [NewUser("user") EXCEPT !.uploads_count = prior]
                        ELSE NewUser(role)]
          /\ accepted_uploads = [u \in UserIds |-> IF u = 1 THEN prior ELSE 0]
    /\ videos = <<>>
    /\ clips = <<>>
    /\ tasks = <<>>
    /\ storage = {}
    /\ response = NoResponse
    /\ NoAnalysisCall

\* The user on the free tier.
FreeUsers == {1}

\* The free user's requests that create, process and delete videos, and the
\* workers of the processing queue.
VideoNext ==
    \/ \E u \in FreeUsers, file_type \in FileTypes : get_upload_url(u, "Episode", file_type)
    \/ \E u \in FreeUsers, file_type \in FileTypes : upload_video(u, "Episode", file_type)
    \/ \E u \in FreeUsers, video_id \in VideoIds, cascades \in BOOLEAN :
          delete_video(u, video_id, cascades)
    \/ \E u \in FreeUsers, video_id \in VideoIds : process_video(u, video_id)
    \/ \E t \in 1..Len(tasks) : ProcessStart(t)
    \/ \E t \in 1..Len(tasks) : ProcessTranscribe(t)
    \/ \E t \in 1..Len(tasks) : ProcessAnalyzing(t)
    \/ \E t \in 1..Len(tasks) : ProcessAnalyze(t)
    \/ \E t \in 1..Len(tasks) : ProcessComplete(t)
    \/ \E t \in 1..Len(tasks) : ProcessRaise(t)

VideoSpec == VideoInit /\ [][VideoNext]_vars

\* ---- one video under processing ------------------------------------------

\* The free user has uploaded one video by POST /videos/upload: the row is
\* UPLOADED, its object is stored and its processing task is queued.
ProcessInit ==
    /\ users = [u \in UserIds |->
                  IF u = 1
                  THEN [NewUser("user") EXCEPT !.uploads_count = 1]
                  ELSE NewUser("pro")]
    /\ accepted_uploads = [u \in UserIds |-> IF u = 1 THEN 1 ELSE 0]
    /\ videos = <<Some([NewVideo(1, "Episode") EXCEPT !.status = "uploaded",
                                                      !.progress_percent = 100])>>
    /\ clips = <<>>
    /\ tasks = <<[name |-> "process_video_task", id |-> 1,
                  pc |-> "queued", local |-> None]>>
    /\ storage = {VideoKey(1)}
    /\ response = [status_code |-> 200, detail |-> ""]
    /\ NoAnalysisCall

\* The user's requests to process the video again, and the workers of the
\* processing queue.
ProcessNext ==
    \/ \E u \in FreeUsers, video_id \in VideoIds : process_video(u, video_id)
    \/ \E t \in 1..Len(tasks) : ProcessStart(t)
    \/ \E t \in 1..Len(tasks) : ProcessTranscribe(t)
    \/ \E t \in 1..Len(tasks) : ProcessAnalyzing(t)
    \/ \E t \in 1..Len(tasks) : ProcessAnalyze(t)
    \/ \E t \in 1..Len(tasks) : ProcessComplete(t)
    \/ \E t \in 1..Len(tasks) : ProcessRaise(t)

ProcessSpec == ProcessInit /\ [][ProcessNext]_vars

\* ---- clips and their rendering ------------------------------------------

\* The first user's video after its processing task has ended: COMPLETED
\* with its analysis, or FAILED in the analysis with the transcription
\* stored.
ProcessedVideo(outcome) ==
    [NewVideo(1, "Episode") EXCEPT
        !.status           = outcome,
        !.progress_percent = IF outcome = "completed" THEN 100 ELSE 50,
        !.transcription    = Some(Transcripts[1]),
        !.analysis_results = IF outcome = "completed" THEN Some(Analyses[1]) ELSE None,
        !.error_message    = IF outcome = "completed" THEN None
                             ELSE Some(RaisedAt.analyze)]

\* The first user, on the free tier or on a paid plan, has uploaded one
\* video and its processing has ended; no clip exists yet.
ClipInit ==
    /\ \E role \in {"user", "pro"}, outcome \in {"completed", "failed"} :
          /\ users = [u \in UserIds |->
                        IF u = 1
                        THEN [NewUser(role) EXCEPT !.uploads_count = 1]
                        ELSE NewUser("user")]
          /\ videos = <<Some(ProcessedVideo(outcome))>>
    /\ accepted_uploads = [u \in UserIds |-> IF u = 1 THEN 1 ELSE 0]
    /\ clips = <<>>
    /\ tasks = <<>>
    /\ storage = {VideoKey(1)}
    /\ response = [status_code |-> 200, detail |-> ""]
    /\ NoAnalysisCall

\* The user whose requests on clips are followed.
ClipUsers == {1}

\* The requests of that user that create and delete clips.
ClipNext ==
    \/ \E u \in ClipUsers, request \in AutoGenerateRequests : auto_generate_clips(u, request)
    \/ \E u \in ClipUsers, clip_data \in ManualClips : create_manual_clip(u, clip_data)
    \/ \E u \in ClipUsers, clip_id \in ClipIds : delete_clip(u, clip_id)

ClipSpec == ClipInit /\ [][ClipNext]_vars

\* ---- rendering ----------------------------------------------------------

\* The first user, on the free tier or on a paid plan, has made one clip of
\* the processed video by POST /clips/manual.
RenderInit ==
    /\ \E role \in {"user", "pro"} :
          users = [u \in UserIds |->
                     IF u = 1
                     THEN [NewUser(role) EXCEPT !.uploads_count = 1]
                     ELSE NewUser("user")]
    /\ videos = <<Some(ProcessedVideo("completed"))>>
    /\ accepted_uploads = [u \in UserIds |-> IF u = 1 THEN 1 ELSE 0]
    /\ clips = <<Some(NewClip(1, [title |-> "Manual", video_id |-> 1,
                                  start_time |-> 0, end_time |-> 30]))>>
    /\ tasks = <<>>
    /\ storage = {VideoKey(1)}
    /\ response = [status_code |-> 200, detail |-> ""]
    /\ NoAnalysisCall

\* The requests of that user that render, fetch and delete the clip and
\* delete the video, and the workers of the render queue.
RenderNext ==
    \/ \E u \in ClipUsers, clip_id \in ClipIds : render_clip(u, clip_id, "bold")
    \/ \E u \in ClipUsers, clip_id \in ClipIds : download_clip(u, clip_id)
    \/ \E u \in ClipUsers, clip_id \in ClipIds : delete_clip(u, clip_id)
    \/ \E u \in ClipUsers, video_id \in VideoIds, cascades \in BOOLEAN :
          delete_video(u, video_id, cascades)
    \/ \E t \in 1..Len(tasks) : RenderStart(t)
    \/ \E t \in 1..Len(tasks) : RenderProgress(t)
    \/ \E t \in 1..Len(tasks) : RenderDownload(t)
    \/ \E t \in 1..Len(tasks) : RenderFfmpeg(t)
    \/ \E t \in 1..Len(tasks) : RenderRaise(t)
    \/ \E t \in 1..Len(tasks) : RenderComplete(t)

RenderSpec == RenderInit /\ [][RenderNext]_vars

\* ---- requests of two users ----------------------------------------------

\* The first of the two users has uploaded a video, which is processed, and
\* has made one clip of it by POST /clips/manual.
AccessInit ==
    /\ \E owner \in {1} :
          /\ users = [u \in UserIds |->
                        IF u = owner
                        THEN [NewUser("user") EXCEPT !.uploads_count = 1]
                        ELSE NewUser("user")]
          /\ videos = <<Some([ProcessedVideo("completed") EXCEPT !.user_id = owner])>>
          /\ accepted_uploads = [u \in UserIds |-> IF u = owner THEN 1 ELSE 0]
          /\ clips = <<Some(NewClip(owner, [title |-> "Manual", video_id |-> 1,
                                            start_time |-> 0, end_time |-> 30]))>>
    /\ tasks = <<>>
    /\ storage = {VideoKey(1)}
    /\ response = [status_code |-> 200, detail |-> ""]
    /\ NoAnalysisCall

\* The auto-generate requests for one clip with the default durations.
DefaultRequests ==
    {request \in AutoGenerateRequests :
        request.max_clips = 1 /\ request.min_duration = 15}

\* The manual clips that pass the timing validation.
ValidManualClips ==
    {clip_data \in ManualClips :
        clip_data.end_time - clip_data.start_time \in 5..180}

\* Every route that names a video or a clip, requested by either user.
AccessNext ==
    \/ \E u \in UserIds, video_id \in VideoIds : get_video(u, video_id)
    \/ \E u \in UserIds, video_id \in VideoIds : update_video(u, video_id, "Episode 1")
    \/ \E u \in UserIds, video_id \in VideoIds, cascades \in BOOLEAN :
          delete_video(u, video_id, cascades)
    \/ \E u \in UserIds, video_id \in VideoIds : process_video(u, video_id)
    \/ \E u \in UserIds, video_id \in VideoIds : get_transcription(u, video_id)
    \/ \E u \in UserIds, request \in DefaultRequests : auto_generate_clips(u, request)
    \/ \E u \in UserIds, clip_data \in ValidManualClips : create_manual_clip(u, clip_data)
    \/ \E u \in UserIds, clip_id \in ClipIds : get_clip(u, clip_id)
    \/ \E u \in UserIds, clip_id \in ClipIds : update_clip(u, clip_id, "bold")
    \/ \E u \in UserIds, clip_id \in ClipIds : render_clip(u, clip_id, "bold")
    \/ \E u \in UserIds, clip_id \in ClipIds : delete_clip(u, clip_id)
    \/ \E u \in UserIds, clip_id \in ClipIds : download_clip(u, clip_id)

AccessSpec == AccessInit /\ [][AccessNext]_vars

(***************************************************************************)
(* Properties.                                                             *)
(***************************************************************************)
Done == pc = "done"

\* The call went past the early return: it has segments and has returned.
Analyzed == pc = "done" /\ transcription.segments # <<>>

\* A score in tenths lies in [0, 100].
InRange(score) == score >= 0 /\ score <= 1000

ScoresInRange(x) ==
    InRange(x.hook_score) /\ InRange(x.engagement_score) /\ InRange(x.viral_score)

\* The input segments wholly inside the window [start, end] (seconds).
Inside(start, end) ==
    {i \in 1..Len(transcription.segments) :
        /\ transcription.segments[i].start >= 10 * start
        /\ transcription.segments[i].end <= 10 * end}

\* C1: every hook, engagement and viral score, of every scored segment and of
\* every highlight, built or returned, lies in [0, 100].
C1_ScoresInRange ==
    /\ \A i \in 1..Len(analyzed_segments) : ScoresInRange(analyzed_segments[i])
    /\ \A i \in 1..Len(highlights) : ScoresInRange(highlights[i])
    /\ Analyzed =>
          /\ \A i \in 1..Len(result.segment_analysis) :
                ScoresInRange(result.segment_analysis[i])
          /\ \A i \in 1..Len(result.highlights) : ScoresInRange(result.highlights[i])

\* A result with highlights whose segment_analysis holds a score at the
\* upper end of the interval.
C1_Witness ==
    /\ Analyzed
    /\ result.highlights # <<>>
    /\ \E i \in 1..Len(result.segment_analysis) :
          result.segment_analysis[i].engagement_score = 1000

\* top is what a stable sort of all by viral_score, descending, followed by
\* a cut to ten leaves: stated on the lists, not by sorting.
IsTopTenOf(top, all) ==
    /\ Len(top) = (IF Len(all) < 10 THEN Len(all) ELSE 10)
    /\ \A i \in 1..Len(top) : \E k \in 1..Len(all) : all[k] = top[i]
    /\ \A i, j \in 1..Len(top) :
          i < j => \/ top[i].viral_score > top[j].viral_score
                   \/ /\ top[i].viral_score = top[j].viral_score
                      /\ top[i].start < top[j].start
    /\ \A k \in 1..Len(all) :
          (\A i \in 1..Len(top) : top[i] # all[k]) =>
              \A i \in 1..Len(top) :
                  \/ top[i].viral_score > all[k].viral_score
                  \/ /\ top[i].viral_score = all[k].viral_score
                     /\ top[i].start < all[k].start

\* C2: the returned highlights are the first ten (or all) of the generated
\* windows in stable descending order of viral_score: non-increasing, ties by
\* increasing start, and no window left out beats a returned one.
C2_TopTenStableSort ==
    Analyzed =>
        IsTopTenOf(result.highlights,
                   ScoreWindows(result.segment_analysis, window_starts))

\* More than ten windows were generated, and two returned ones tie.
C2_Witness ==
    /\ Analyzed
    /\ Len(ScoreWindows(result.segment_analysis, window_starts)) > 10
    /\ \E i \in 1..(Len(result.highlights) - 1) :
          result.highlights[i].viral_score = result.highlights[i + 1].viral_score

\* C3: every highlight starts at a non-negative multiple of 5, spans 30 s
\* and ends within the duration; and the windows considered are all the
\* starts s = 0, 5, 10, ... with s + 30 <= duration.
C3_WindowGrid ==
    /\ \A i \in 1..Len(highlights) :
          /\ highlights[i].start >= 0
          /\ highlights[i].start % 5 = 0
          /\ highlights[i].end = highlights[i].start + 30
          /\ 10 * highlights[i].end <= duration
    /\ Analyzed =>
          /\ result.highlights = highlights
          /\ Range(window_starts) = {s \in 0..Abs(duration) : s % 5 = 0 /\ 10 * (s + 30) <= duration}
          /\ \A k \in 1..(Len(window_starts) - 1) :
                window_starts[k] < window_starts[k + 1]

\* A fractional duration (34.9 s) whose single window gave a highlight.
C3_Witness ==
    /\ Analyzed
    /\ duration = 349
    /\ window_starts = <<0>>
    /\ Len(result.highlights) = 1

\* C4 as claimed: for duration 100 the starts are 0, 5, ..., 65, 14 windows.
C4_AsClaimed ==
    (duration = 1000 /\ pc \notin {"call", "segments", "windows"}
                     /\ transcription.segments # <<>>) =>
        /\ window_starts = <<0, 5, 10, 15, 20, 25, 30, 35, 40, 45, 50, 55, 60, 65>>
        /\ Len(window_starts) <= 14

\* C4, amended: for duration 100 the starts are 0, 5, ..., 70 (the last
\* window ends exactly at the duration), so at most 15 windows exist before
\* the empty ones are dropped.
C4_WindowsAt100 ==
    (duration = 1000 /\ pc \notin {"call", "segments", "windows"}
                     /\ transcription.segments # <<>>) =>
        /\ window_starts =
               <<0, 5, 10, 15, 20, 25, 30, 35, 40, 45, 50, 55, 60, 65, 70>>
        /\ Len(highlights) <= 15

\* The loop over the windows of a 100 s video has run, up to start 70.
C4_Witness ==
    /\ pc = "rank"
    /\ duration = 1000
    /\ Len(window_starts) = 15
    /\ window_starts[15] = 70

\* C5: a highlight is built from exactly the segments with start >= s and
\* end <= s + 30, in input order; a window without such a segment gives no
\* highlight, so every highlight holds a segment.
C5_ContainedSegments ==
    /\ pc = "rank" =>
          {highlights[i].start : i \in 1..Len(highlights)} =
              {s \in Range(window_starts) : Inside(s, s + 30) # {}}
    /\ Analyzed =>
          \A i \in 1..Len(result.highlights) :
              LET h  == result.highlights[i]
                  at == Ascending(Inside(h.start, h.end))
              IN  /\ at # <<>>
                  /\ h.transcript =
                        Join(List([n \in 1..Len(at) |-> transcription.segments[at[n]].text]))

\* A returned highlight whose window a segment only partly overlaps.
C5_Witness ==
    /\ Analyzed
    /\ \E i \in 1..Len(result.highlights) :
          \E k \in 1..Len(transcription.segments) :
              /\ transcription.segments[k].start >= 10 * result.highlights[i].start
              /\ transcription.segments[k].start < 10 * result.highlights[i].end
              /\ transcription.segments[k].end > 10 * result.highlights[i].end

\* value is the mean of scores rounded to one decimal: the tenth nearest to
\* the mean, hence between the least and the greatest score.
IsRoundedMeanOf(value, scores) ==
    /\ 2 * Abs(Len(scores) * value - SumSeq(scores)) <= Len(scores)
    /\ \E k \in 1..Len(scores) : scores[k] <= value
    /\ \E k \in 1..Len(scores) : scores[k] >= value

\* C6: each score of a highlight is the mean, rounded to one decimal, of the
\* same score over the segments inside its window.
C6_HighlightMeans ==
    Analyzed =>
        \A i \in 1..Len(result.highlights) :
            LET h    == result.highlights[i]
                at   == Ascending(Inside(h.start, h.end))
                segs == result.segment_analysis
            IN  /\ IsRoundedMeanOf(h.viral_score,
                       List([n \in 1..Len(at) |-> segs[at[n]].viral_score]))
                /\ IsRoundedMeanOf(h.hook_score,
                       List([n \in 1..Len(at) |-> segs[at[n]].hook_score]))
                /\ IsRoundedMeanOf(h.engagement_score,
                       List([n \in 1..Len(at) |-> segs[at[n]].engagement_score]))

\* A highlight over three segments whose mean hook score is not a whole
\* number of tenths and was rounded up.
C6_Witness ==
    /\ Analyzed
    /\ \E i \in 1..Len(result.highlights) :
          LET h  == result.highlights[i]
              at == Ascending(Inside(h.start, h.end))
              total == SumSeq(List([n \in 1..Len(at) |->
                                      result.segment_analysis[at[n]].hook_score]))
          IN  Len(at) = 3 /\ 3 * h.hook_score > total

\* C7 as claimed: without segments the result has highlights, topics,
\* keywords and segment_analysis, all empty, and sentiment.overall = "neutral".
C7_EmptyResult ==
    (Done /\ transcription.segments = <<>>) =>
        /\ {"highlights", "topics", "keywords", "segment_analysis", "sentiment"}
               \subseteq DOMAIN result
        /\ result.highlights = <<>>
        /\ result.topics = <<>>
        /\ result.keywords = <<>>
        /\ result.segment_analysis = <<>>
        /\ "overall" \in DOMAIN result.sentiment
        /\ result.sentiment.overall = "neutral"

\* C8 as claimed: with duration 0 and segments, the empty result, nothing
\* scored.
C8_AsClaimed ==
    (duration = 0 /\ transcription.segments # <<>>) =>
        /\ analyzed_segments = <<>>
        /\ Done =>
              /\ result.highlights = <<>>
              /\ result.topics = <<>>
              /\ result.keywords = <<>>
              /\ result.segment_analysis = <<>>

\* C8, amended: with duration 0 and segments the call returns no highlight,
\* but it is not cut short: every segment is scored, the sentiment is
\* computed, and topics and keywords are taken from the text (some, when the
\* text has a word of four letters that is no stop word).
C8_ZeroDuration ==
    (Done /\ duration = 0 /\ transcription.segments # <<>>) =>
        /\ result.highlights = <<>>
        /\ Len(result.segment_analysis) = Len(transcription.segments)
        /\ \A i \in 1..Len(result.segment_analysis) :
              /\ result.segment_analysis[i].text = transcription.segments[i].text
              /\ ScoresInRange(result.segment_analysis[i])
        /\ "overall" \in DOMAIN result.sentiment
        /\ (\E w \in Range(FindWords(lower(transcription.text))) : w \notin stop_words)
              => (result.topics # <<>> /\ result.keywords # <<>>)

\* A returned analysis of two or more segments of a video of duration 0.
C8_Witness ==
    /\ Done
    /\ duration = 0
    /\ Len(transcription.segments) >= 2
    /\ Len(result.segment_analysis) = Len(transcription.segments)
    /\ result.topics # <<>>

InvalidInput ==
    \/ duration < 0
    \/ \E i \in 1..Len(transcription.segments) :
          transcription.segments[i].end <= transcription.segments[i].start

\* C9 as claimed: a negative duration or a segment with end <= start is
\* rejected before any scoring, with an InvalidInput error and no result.
C9_RejectsInvalid ==
    InvalidInput =>
        /\ analyzed_segments = <<>>
        /\ Done => DOMAIN result = {"error"} /\ result.error = "InvalidInput"

\* The hook score as claimed, from the text and the start (tenths).
ClaimedHook(text, start) ==
    LET E == IF start < 300 THEN 150 ELSE IF start < 600 THEN 100 ELSE 0
        Q == IF Contains(text, "?") THEN 100 ELSE 0
        B == IF \E w \in {"fact", "truth", "secret", "never", "always",
                          "everyone", "nobody"} : Contains(lower(text), w)
             THEN 50 ELSE 0
        D == IF HasDigit(text) THEN 50 ELSE 0
        S == IF \E w \in {"when i", "i remember", "one day", "last year",
                          "recently"} : StartsWith(lower(text), w)
             THEN 100 ELSE 0
        sum == 500 + E + Q + B + D + S
    IN  IF sum > 1000 THEN 1000 ELSE IF sum < 0 THEN 0 ELSE sum

\* C10: hook_score = clamp(50 + E + Q + B + D + S) for every segment; the
\* segment at 5 s saying "What if I told you a secret?" scores 80; no score
\* exceeds 95.
C10_HookScore ==
    \A i \in 1..Len(analyzed_segments) :
        LET a == analyzed_segments[i]
        IN  /\ a.hook_score = ClaimedHook(a.text, a.start)
            /\ a.hook_score <= 950
            /\ (a.start = 50 /\ a.text = "What if I told you a secret?")
                  => a.hook_score = 800

\* The segment of the scenario was scored, and another reached 95.
C10_Witness ==
    /\ \E i \in 1..Len(analyzed_segments) :
          /\ analyzed_segments[i].start = 50
          /\ analyzed_segments[i].text = "What if I told you a secret?"
          /\ analyzed_segments[i].hook_score = 800
    /\ \E i \in 1..Len(analyzed_segments) : analyzed_segments[i].hook_score = 950

\* How many of the given words occur in the lower-cased text.
Matched(words, text) ==
    LET low == lower(text) IN Cardinality({w \in words : Contains(low, w)})

\* The engagement score as claimed, in tenths.
ClaimedEngagement(text) ==
    LET e == Matched({"amazing", "incredible", "shocking", "surprising",
                      "unbelievable", "love", "hate", "angry", "happy", "sad",
                      "excited", "worried", "perfect", "terrible", "awesome",
                      "awful", "fantastic"}, text)
        c == Matched({"subscribe", "follow", "like", "comment", "share",
                      "check out"}, text)
        v == Matched({"controversial", "debate", "argue", "wrong", "right",
                      "truth"}, text)
        sum == 500 + 30 * e + 50 * c + 50 * v
    IN  IF sum > 1000 THEN 1000 ELSE sum

\* C11: engagement_score = min(100, 50 + 3e + 5c + 5v) for every segment, e,
\* c and v counting the emotional, call-to-action and controversy entries
\* that occur in the lower-cased text, each once; the text "I love this
\* amazing incredible moment" scores 59.
C11_EngagementScore ==
    \A i \in 1..Len(analyzed_segments) :
        LET a == analyzed_segments[i]
        IN  /\ a.engagement_score = ClaimedEngagement(a.text)
            /\ a.text = "I love this amazing incredible moment"
                  => a.engagement_score = 590

\* The text of the scenario was scored 59, and a text whose entries add up
\* to more than 100 (six calls to action, five controversy words) got 100.
C11_Witness ==
    /\ \E i \in 1..Len(analyzed_segments) :
          /\ analyzed_segments[i].text = "I love this amazing incredible moment"
          /\ analyzed_segments[i].engagement_score = 590
    /\ \E i \in 1..Len(analyzed_segments) :
          /\ Matched(Range(cta_words), analyzed_segments[i].text) = 6
          /\ Matched(Range(controversial), analyzed_segments[i].text) = 5
          /\ analyzed_segments[i].engagement_score = 1000

\* The trending keywords that occur in the lower-cased text.
TrendingIn(text) ==
    Matched({"ai", "crypto", "bitcoin", "money", "success", "motivation"}, text)

\* Ten times 0.4*hook + 0.4*engagement + 20 + 5t, in tenths: the viral score
\* before the clamp.
ViralSum10(a) ==
    4 * a.hook_score + 4 * a.engagement_score + 2000 + 500 * TrendingIn(a.text)

\* C12: viral_score = min(100, max(0, 0.4*hook + 0.4*engagement + 20 + 5t))
\* for every segment, from the clamped hook and engagement scores of the same
\* segment and the count t of trending keywords in the lower-cased text; the
\* clamp comes after the trending bonus.
C12_ViralScore ==
    \A i \in 1..Len(analyzed_segments) :
        LET a == analyzed_segments[i]
        IN  /\ InRange(a.hook_score) /\ InRange(a.engagement_score)
            /\ 10 * a.viral_score =
                  (IF ViralSum10(a) > 10000 THEN 10000
                   ELSE IF ViralSum10(a) < 0 THEN 0 ELSE ViralSum10(a))

\* Two scored segments with trending keywords: one whose sum passes 100 only
\* with the bonus and is cut to 100, one that stays below.
C12_Witness ==
    /\ \E i \in 1..Len(analyzed_segments) :
          LET a == analyzed_segments[i]
          IN  /\ TrendingIn(a.text) > 0
              /\ ViralSum10(a) > 10000
              /\ ViralSum10(a) - 500 * TrendingIn(a.text) <= 10000
              /\ a.viral_score = 1000
    /\ \E i \in 1..Len(analyzed_segments) :
          /\ TrendingIn(analyzed_segments[i].text) > 0
          /\ analyzed_segments[i].viral_score < 1000

SixLabels == {"joy", "anger", "sadness", "fear", "surprise", "neutral"}

\* The entries of the three emotion vocabularies (19 in all) that occur in
\* the lower-cased text.
EmotionWordsIn(text) ==
    Matched({"happy", "joy", "excited", "amazing", "great", "awesome", "love",
             "perfect", "angry", "hate", "terrible", "awful", "worst",
             "annoying", "wow", "unbelievable", "shocking", "surprising",
             "incredible"}, text)

\* C13 as claimed: the emotions of every segment have exactly the six
\* labels, no negative value and the sum 1, whatever the number of matched
\* words; with no matched word neutral is 1 and the others are 0.
C13_EmotionsDistribution ==
    \A i \in 1..Len(analyzed_segments) :
        LET e == analyzed_segments[i].emotions
        IN  /\ DOMAIN e = SixLabels
            /\ \A k \in SixLabels : e[k][1] >= 0
            /\ SumValues(e) = <<1, 1>>
            /\ EmotionWordsIn(analyzed_segments[i].text) = 0
                  => \A k \in SixLabels : e[k] = (IF k = "neutral" THEN <<1, 1>> ELSE <<0, 1>>)

\* C14 as claimed: for a non-empty segment list the values of the returned
\* sentiment.distribution sum to 1.0 within 1e-6.
C14_DistributionSumsToOne ==
    Analyzed =>
        LET sum == SumValues(result.sentiment.distribution)
        IN  1000000 * Abs(sum[1] - sum[2]) <= sum[2]

\* C15: sentiment.overall is a label of maximal value in the returned
\* distribution, and of the labels sharing the maximum the first in the
\* order joy, anger, sadness, fear, surprise, neutral.
C15_OverallIsFirstMax ==
    Analyzed =>
        LET d == result.sentiment.distribution
            o == result.sentiment.overall
            order == <<"joy", "anger", "sadness", "fear", "surprise", "neutral">>
            at == CHOOSE n \in 1..6 : order[n] = o
        IN  /\ o \in SixLabels
            /\ DOMAIN d = SixLabels
            /\ \A k \in SixLabels : d[k][1] * d[o][2] <= d[o][1] * d[k][2]
            /\ \A n \in 1..(at - 1) : d[order[n]] # d[o]

\* A returned sentiment in which two labels share the maximum and the first
\* of them is the overall one.
C15_Witness ==
    /\ Analyzed
    /\ result.sentiment.overall = "joy"
    /\ result.sentiment.distribution.anger = result.sentiment.distribution.joy
    /\ result.sentiment.distribution.joy[1] > 0

\* The text has no content: it is empty or holds spaces only.
NoContent(text) == \A i \in 1..Len(text) : CharAt(text, i) = " "

\* The title as claimed.
ClaimedTitle(text) ==
    IF NoContent(text) THEN "Untitled Clip"
    ELSE LET dots  == {i \in 1..Len(text) : CharAt(text, i) = "."}
             stop  == IF dots = {} THEN Len(text) + 1
                      ELSE CHOOSE i \in dots : \A j \in dots : i <= j
             first == Strip(SubSeq(text, 1, stop - 1))
         IN  IF Len(first) > 60 THEN SubSeq(first, 1, 57) \o "..." ELSE first

\* C17 as claimed: the title of every highlight is the first sentence of its
\* transcript, stripped, cut to 57 characters and "..." when longer than 60,
\* so never longer than 60; "Untitled Clip" when the transcript has no
\* content.
C17_Title ==
    \A i \in 1..Len(highlights) :
        /\ highlights[i].title = ClaimedTitle(highlights[i].transcript)
        /\ Len(highlights[i].title) <= 60

\* The index of the first occurrence of x in the list xs.
FirstAt(xs, x) == CHOOSE i \in 1..Len(xs) : xs[i] = x /\ \A j \in 1..(i - 1) : xs[j] # x

\* kw is the list of first occurrences of all, in order, cut to n entries.
IsFirstOccurrences(kw, all, n) ==
    /\ Len(kw) = (IF Cardinality(Range(all)) < n THEN Cardinality(Range(all)) ELSE n)
    /\ \A i \in 1..Len(kw) : kw[i] \in Range(all)
    /\ \A i, j \in 1..Len(kw) : i < j => FirstAt(all, kw[i]) < FirstAt(all, kw[j])
    /\ \A x \in Range(all) \ Range(kw) :
          \A i \in 1..Len(kw) : FirstAt(all, kw[i]) < FirstAt(all, x)

\* tp is the list of the five most frequent words of four letters or more of
\* the lower-cased text that are no stop words, ties in first-seen order.
IsTopics(tp, text) ==
    LET words    == SelectSeq(FindWords(lower(text)), LAMBDA w : w \notin stop_words)
        Count(w) == Cardinality({i \in 1..Len(words) : words[i] = w})
        Beats(v, w) == \/ Count(v) > Count(w)
                       \/ Count(v) = Count(w) /\ FirstAt(words, v) < FirstAt(words, w)
    IN  /\ Len(tp) = (IF Cardinality(Range(words)) < 5 THEN Cardinality(Range(words)) ELSE 5)
        /\ \A i \in 1..Len(tp) : tp[i] \in Range(words)
        /\ \A i, j \in 1..Len(tp) : i < j => Beats(tp[i], tp[j])
        /\ \A w \in Range(words) \ Range(tp) : \A i \in 1..Len(tp) : Beats(tp[i], w)

\* The all-caps words of the given segments, in segment order.
EmphasisWords(segments) ==
    Flatten(List([i \in 1..Len(segments) |-> FindCaps(segments[i].text)]))

\* C18: keywords = the topics of the text, then the all-caps words of the
\* segments in segment order, later duplicates removed, cut to 10: no entry
\* repeats, at most 10 entries (5 in a highlight), and topics is a prefix of
\* the top-level keywords.
C18_Keywords ==
    Analyzed =>
        /\ IsTopics(result.topics, transcription.text)
        /\ IsFirstOccurrences(result.keywords,
                               result.topics \o EmphasisWords(transcription.segments), 10)
        /\ Len(result.keywords) <= 10
        /\ \A i, j \in 1..Len(result.keywords) :
              i # j => result.keywords[i] # result.keywords[j]
        /\ Len(result.topics) <= Len(result.keywords)
        /\ SubSeq(result.keywords, 1, Len(result.topics)) = result.topics
        /\ \A n \in 1..Len(result.highlights) :
              LET h    == result.highlights[n]
                  at   == Ascending(Inside(h.start, h.end))
                  segs == List([k \in 1..Len(at) |-> transcription.segments[at[k]]])
              IN  /\ Len(h.keywords) <= 5
                  /\ IsFirstOccurrences(h.keywords,
                         extract_topics(h.transcript) \o EmphasisWords(segs), 5)

\* A result whose candidate keywords repeat an all-caps word and number more
\* than ten once the repeats are gone, so that both the removal and the cut
\* took place.
C18_Witness ==
    /\ Analyzed
    /\ LET all == result.topics \o EmphasisWords(transcription.segments)
       IN  /\ Cardinality(Range(all)) < Len(all)
           /\ Cardinality(Range(all)) > 10
    /\ Len(result.keywords) = 10
    /\ result.topics # <<>>
    /\ result.highlights # <<>>

\* The text has no n letters in a row (class: the letters meant).
NoRun(text, class, n) ==
    ~\E i \in 1..(Len(text) - n + 1) : \A k \in 0..(n - 1) : CharAt(text, i + k) \in class

SameInputSameResult ==
    \A c, d \in DOMAIN calls :
        (/\ calls[c].pc = "done" /\ calls[d].pc = "done"
         /\ calls[c].transcription = calls[d].transcription
         /\ calls[c].duration = calls[d].duration)
        => calls[c].result = calls[d].result

\* C16: calls with identical transcription and duration return identical
\* results, on the same instance or on different ones and in any order; and
\* no step of a call changes an instance (embedding_model,
\* embedding_model_name) or the transcription and duration it was given.
C16_Deterministic ==
    [][/\ SameInputSameResult'
       /\ service' = service
       /\ \A c \in DOMAIN calls :
             /\ calls'[c].transcription = calls[c].transcription
             /\ calls'[c].duration = calls[c].duration
             /\ calls'[c].self = calls[c].self]_vars

\* Two calls with the same two segments, on one instance, have both returned
\* the same result with a highlight, and the instance is as constructed.
C16_Witness ==
    /\ calls # <<>>
    /\ calls[1].pc = "done" /\ calls[2].pc = "done"
    /\ calls[1].self = calls[2].self
    /\ calls[1].transcription = calls[2].transcription
    /\ Len(calls[1].transcription.segments) = 2
    /\ calls[1].result = calls[2].result
    /\ calls[1].result.highlights # <<>>
    /\ service[calls[1].self] = NewService

\* C20: however the calls interleave, on a shared instance or not, a call
\* that has returned holds the result analyze_video gives for its arguments
\* when it runs on its own.
C20_Isolation ==
    \A c \in DOMAIN calls :
        calls[c].pc = "done" =>
            calls[c].result = analyze_video(calls[c].transcription, calls[c].duration)

\* Two calls with different segments are both under way on one instance,
\* each past its scoring loop and holding the highlights of its own segments.
C20_Witness ==
    /\ calls # <<>>
    /\ calls[1].self = calls[2].self
    /\ calls[1].transcription # calls[2].transcription
    /\ calls[1].pc = "sentiment" /\ calls[2].pc = "sentiment"
    /\ \A c \in {1, 2} :
          /\ Len(frames[Cell(c)].analyzed_segments) = Len(calls[c].transcription.segments)
          /\ frames[Cell(c)].highlights # <<>>

\* C29: neither normalisation meets a zero or negative denominator.  The
\* total of a segment with n matched emotion words is 1 + 0.1 n, and the
\* total _analyze_sentiment divides by is the number of annotated segments;
\* both are positive, so neither "leave unnormalised" branch is taken.
C29_DenominatorsPositive ==
    /\ \A i \in 1..Len(analyzed_segments) :
           LET text  == analyzed_segments[i].text
               total == emotions_total(text)
           IN  /\ total = Frac(10 + EmotionWordsIn(text), 10)
               /\ FPos(total)
               /\ analyzed_segments[i].emotions # emotion_scores(text)
                     \/ total = <<1, 1>>
    /\ Analyzed =>
           LET total == sentiment_total(analyzed_segments)
           IN  /\ total = Frac(Len(analyzed_segments), 1)
               /\ FPos(total)

\* A returned call of two segments, one with more than ten matched emotion
\* words (its neutral score is negative) and one with none.
C29_Witness ==
    /\ Analyzed
    /\ Len(analyzed_segments) = 2
    /\ \E i \in 1..2 : EmotionWordsIn(analyzed_segments[i].text) > 10
    /\ \E i \in 1..2 : EmotionWordsIn(analyzed_segments[i].text) = 0

\* The process_video_task entries of a video that are queued or running.
ProcessTasksOf(video_id) ==
    {t \in 1..Len(tasks) :
        tasks[t].name = "process_video_task" /\ tasks[t].id = video_id}

\* C21: for every video at most one process_video_task is queued or running
\* at any time; a POST /videos/{id}/process made while one is pending is
\* rejected in every status the video passes through.
C21_OneProcessTask ==
    \A video_id \in VideoIds : Cardinality(ProcessTasksOf(video_id)) <= 1

\* The row of the video a task works on, before and after a step.
RowOf(t) == videos[tasks[t].id][1]

RowAfter(t) == videos'[tasks[t].id][1]

\* The video of task t exists.
HasRow(t) == video_get_by_id(tasks[t].id) # None

\* Processing task t takes the step from one position to the next.
Moved(t, from, to) ==
    /\ tasks[t].name = "process_video_task"
    /\ tasks[t].pc = from
    /\ Len(tasks') = Len(tasks)
    /\ tasks'[t].pc = to

\* Processing task t returns from its last position.
Returned(t) ==
    /\ tasks[t].name = "process_video_task"
    /\ tasks[t].pc = "complete"
    /\ tasks' = Finished(t)

\* C22: a run of the processing task that raises nothing writes the statuses
\* TRANSCRIBING (10), TRANSCRIBED, ANALYZING (50), ANALYZED, COMPLETED (100)
\* in this order, the transcription is stored before the analysis starts and
\* the analysis results before COMPLETED; a COMPLETED video has both.
C22_ProcessingOrder ==
    /\ [][\A t \in 1..Len(tasks) :
             /\ tasks[t].name = "process_video_task" /\ Len(tasks') = Len(tasks) =>
                   <<tasks[t].pc, tasks'[t].pc>> \in
                       {<<"queued", "queued">>, <<"queued", "transcribe">>,
                        <<"transcribe", "transcribe">>, <<"transcribe", "analyzing">>,
                        <<"analyzing", "analyzing">>, <<"analyzing", "analyze">>,
                        <<"analyze", "analyze">>, <<"analyze", "complete">>,
                        <<"complete", "complete">>}
             /\ Moved(t, "queued", "transcribe") /\ HasRow(t) =>
                   /\ RowAfter(t).status = "transcribing"
                   /\ RowAfter(t).progress_percent = 10
             /\ Moved(t, "transcribe", "analyzing") /\ HasRow(t) =>
                   /\ RowAfter(t).status = "transcribed"
                   /\ RowAfter(t).transcription # None
                   /\ RowAfter(t).transcription = tasks'[t].local
             /\ Moved(t, "analyzing", "analyze") /\ HasRow(t) =>
                   /\ RowAfter(t).status = "analyzing"
                   /\ RowAfter(t).progress_percent = 50
                   /\ RowAfter(t).transcription # None
             /\ Moved(t, "analyze", "complete") /\ HasRow(t) =>
                   /\ RowAfter(t).status = "analyzed"
                   /\ RowAfter(t).analysis_results = Some(AnalysisOf(tasks[t].local[1]))
             /\ Returned(t) /\ HasRow(t) =>
                   /\ RowOf(t).transcription # None
                   /\ RowOf(t).analysis_results # None
                   /\ RowAfter(t).status = "completed"
                   /\ RowAfter(t).progress_percent = 100
                   /\ RowAfter(t).transcription = RowOf(t).transcription
                   /\ RowAfter(t).analysis_results = RowOf(t).analysis_results]_vars
    /\ [](\A v \in 1..Len(videos) :
             videos[v] # None /\ videos[v][1].status = "completed" =>
                 /\ videos[v][1].transcription # None
                 /\ videos[v][1].analysis_results # None)

\* The one task of a video has run to its end: the video is COMPLETED at
\* 100 with its transcription and an analysis that has highlights, and
\* nothing is queued.
C22_Witness ==
    /\ tasks = <<>>
    /\ \E v \in 1..Len(videos) :
          /\ videos[v] # None
          /\ videos[v][1].status = "completed"
          /\ videos[v][1].progress_percent = 100
          /\ videos[v][1].transcription # None
          /\ videos[v][1].analysis_results # None
          /\ videos[v][1].analysis_results[1].highlights # <<>>

\* C23: when a step of the processing task raises, the video is set to
\* FAILED with the text of the exception and the task is queued again for a
\* retry.
C23_FailedThenRetried ==
    [][\A t \in 1..Len(tasks) :
          ProcessRaise(t) /\ HasRow(t) =>
              /\ RowAfter(t).status = "failed"
              /\ RowAfter(t).error_message = Some(RaisedAt[tasks[t].pc])
              /\ Len(tasks') = Len(tasks)
              /\ \E k \in 1..Len(tasks') :
                    /\ tasks'[k].name = "process_video_task"
                    /\ tasks'[k].id = tasks[t].id
                    /\ tasks'[k].pc = "queued"]_vars

\* C25: a user on the free tier never gets more than 5 video records created
\* through POST /videos/upload and POST /videos/upload-url: every accepted
\* upload counts towards uploads_count, and after 5 every further upload is
\* answered 403.
C25_UploadLimit ==
    \A u \in FreeUsers :
        /\ accepted_uploads[u] <= 5
        /\ users[u].uploads_count = accepted_uploads[u]

\* The render_clip_task entries of a clip that are queued or running.
RenderTasksOf(clip_id) ==
    {t \in 1..Len(tasks) :
        tasks[t].name = "render_clip_task" /\ tasks[t].id = clip_id}

\* C24: for every clip at most one render_clip_task is queued or running at
\* any time; a POST /clips/{id}/render made while the clip is QUEUED or
\* RENDERING is rejected and queues nothing.
C24_OneRenderTask ==
    \A clip_id \in ClipIds : Cardinality(RenderTasksOf(clip_id)) <= 1

\* C26: each render a free user starts consumes one render credit, which
\* never goes below 0; users on a paid plan are never rejected and keep
\* their credits.
C26_RenderConsumesCredit ==
    [][\A u \in ClipUsers, clip_id \in ClipIds :
          render_clip(u, clip_id, "bold") =>
              IF users[u].role \in PaidRoles
              THEN /\ response'.status_code # 403
                   /\ users'[u].render_credits = users[u].render_credits
              ELSE /\ users'[u].render_credits >= 0
                   /\ response'.status_code = 200 =>
                         users'[u].render_credits = users[u].render_credits - 1]_vars

\* Clip c exists and is COMPLETED.
Completed(c) == clips[c] # None /\ clips[c][1].status = "completed"

C27_AutoClipsWithinDurations ==
    [][\A u \in ClipUsers, request \in AutoGenerateRequests :
          auto_generate_clips(u, request)
              /\ can_render(users[u]) /\ ~VideoNotFound(u, request.video_id) =>
              LET video   == videos[request.video_id][1]
                  created == SubSeq(clips', Len(clips) + 1, Len(clips'))
              IN  IF video.analysis_results = None
                  THEN /\ clips' = clips
                       /\ response'.detail = "Video analysis not available"
                  ELSE /\ Len(created) <= request.max_clips
                       /\ Len(created) <= Len(video.analysis_results[1].highlights)
                       /\ \A i \in 1..Len(created) :
                             LET clip == created[i][1]
                             IN  /\ clip.start_time
                                       = video.analysis_results[1].highlights[i].start
                                 /\ clip.start_time < clip.end_time
                                 /\ request.min_duration <= clip.end_time - clip.start_time
                                 /\ clip.end_time - clip.start_time <= request.max_duration]_vars

\* Video video_id exists and belongs to another user than u.
ForeignVideo(u, video_id) ==
    video_get_by_id(video_id) # None /\ videos[video_id][1].user_id # u

\* Clip clip_id exists and belongs to another user than u.
ForeignClip(u, clip_id) ==
    clip_get_by_id(clip_id) # None /\ clips[clip_id][1].user_id # u

\* The request was answered 404 and changed no record, object or queue.
Refused ==
    /\ response'.status_code = 404
    /\ UNCHANGED <<users, videos, clips, tasks, storage>>

\* C28: a request of one user on a video or clip of another user is answered
\* 404 by every route and leaves the records, the storage objects and the
\* task queue as they were (a step that is not such a refusal is no request
\* on a record of another user); every clip has the user_id of its video.
C28_OwnRecordsOnly ==
    /\ [][Refused \/
             /\ \A u \in UserIds, video_id \in VideoIds :
                   ForeignVideo(u, video_id) =>
                       /\ ~get_video(u, video_id)
                       /\ ~update_video(u, video_id, "Episode 1")
                       /\ \A cascades \in BOOLEAN : ~delete_video(u, video_id, cascades)
                       /\ ~process_video(u, video_id)
                       /\ ~get_transcription(u, video_id)
                       /\ \A request \in DefaultRequests :
                             request.video_id = video_id
                                 => ~auto_generate_clips(u, request)
                       /\ \A clip_data \in ValidManualClips :
                             clip_data.video_id = video_id
                                 => ~create_manual_clip(u, clip_data)
             /\ \A u \in UserIds, clip_id \in ClipIds :
                   ForeignClip(u, clip_id) =>
                       /\ ~get_clip(u, clip_id)
                       /\ ~update_clip(u, clip_id, "bold")
                       /\ ~render_clip(u, clip_id, "bold")
                       /\ ~delete_clip(u, clip_id)
                       /\ ~download_clip(u, clip_id)]_vars
    /\ [](\A c \in 1..Len(clips) :
             clips[c] # None =>
                 /\ video_get_by_id(clips[c][1].video_id) # None
                 /\ clips[c][1].user_id = videos[clips[c][1].video_id][1].user_id)

\* Every video and clip row of the model exists, all of one user, the owner
\* has a render queued, and the last request was answered 404: it came from
\* the other user.
C28_Witness ==
    /\ response.status_code = 404
    /\ \A v \in VideoIds : video_get_by_id(v) # None
    /\ \A c \in ClipIds : clip_get_by_id(c) # None
    /\ \A c \in ClipIds : clips[c][1].user_id = videos[1][1].user_id
    /\ \E t \in 1..Len(tasks) : tasks[t].name = "render_clip_task"

=============================================================================
